---- MODULE Spec2Model ----
(***************************************************************************)
(* The service-and-RPC core of nova: nova/rpc.py (consumers, publishers,   *)
(* AdapterConsumer dispatch, call / cast / fanout_cast, context packing),  *)
(* nova/context.py (RequestContext) and nova/echo/manager.py (the echo     *)
(* handler), as a state machine over an AMQP-style broker.                 *)
(*                                                                         *)
(* Python dictionaries are functions.  A dictionary key is a sequence of   *)
(* tokens, so that the '_context_' prefix of a wire key can be tested and  *)
(* sliced off: 'method' is <<"method">>, '_context_user' is                *)
(* <<"_context_", "user">>.                                                *)
(***************************************************************************)
EXTENDS Integers, Sequences, FiniteSets, TLC

\* ------------------------------------------------------------------ bounds

\* Client operations (call, cast, fanout_cast, send_message) in one run.
MaxMsgs == 2
\* Services started on the one topic, each on its own host.
NumServices == 2
\* Times the broker hands the same unacked message to a consumer again.
MaxRedeliver == 1
\* Fetches the timers make during one outage of the broker.
MaxOutageFetches == 2
\* Firings of a service's periodic timers.
MaxFires == 1
\* The largest FLAGS.rabbit_max_retries tried.
MaxRetries == 4
\* Times the broker goes away.
MaxDrops == 1
\* Calls of Connection's classmethods.
MaxCalls == 4
\* Calls of Service.stop on one service.
MaxStops == 2

\* ------------------------------------------------------ values and keys

None == "None"
EmptyDict == << >>

Key(name) == <<name>>
ContextPrefix == "_context_"

\* '_context_%s' % key
ContextKey(key) == <<ContextPrefix>> \o key

\* str(key).startswith('_context_')
startswith_context(key) == Len(key) >= 1 /\ key[1] = ContextPrefix

\* key[9:]
strip_context(key) == Tail(key)

\* dict.get(key, default)
Get(d, key, default) == IF key \in DOMAIN d THEN d[key] ELSE default

\* d restricted to the keys in ks
Restrict(d, ks) == [k \in ks |-> d[k]]

\* ------------------------------------------------ nova.utils time format

\* A datetime is [sec, usec]; its ISO-8601 text, "%Y-%m-%dT%H:%M:%SZ", is
\* [iso |-> sec]: the format has no place for the microseconds.
utcnow == [sec |-> 9, usec |-> 3]
isotime(at) == [iso |-> at.sec]
parse_isotime(timestr) == [sec |-> timestr.iso, usec |-> 0]
IsTimeString(t) == DOMAIN t = {"iso"}

\* --------------------------------------------------------- RequestContext

ContextFields ==
  {"tenant", "user", "groups", "remote_address", "timestamp", "request_id"}

\* What random.choice gives when no request_id is passed in.
GeneratedRequestId == "GENERATED-REQUEST-ID"

\* cls(**values) raises TypeError unless the two positional arguments are
\* there and every keyword is one the constructor has.
ArgsAccepted(values) ==
  /\ {Key("tenant"), Key("user")} \subseteq DOMAIN values
  /\ DOMAIN values \subseteq {Key(f) : f \in ContextFields}

\* RequestContext.__init__, given its keyword arguments.
RequestContext(values) ==
  LET groups == Get(values, Key("groups"), << >>)
      given == Key("timestamp") \in DOMAIN values
      timestamp == IF given THEN values[Key("timestamp")] ELSE utcnow
      request_id == Get(values, Key("request_id"), "")
  IN [user |-> values[Key("user")],
      tenant |-> values[Key("tenant")],
      groups |-> groups,
      remote_address |-> Get(values, Key("remote_address"), None),
      timestamp |-> IF IsTimeString(timestamp) THEN parse_isotime(timestamp)
                    ELSE timestamp,
      request_id |-> IF request_id = "" THEN GeneratedRequestId
                     ELSE request_id]

to_dict(ctx) ==
  (Key("user") :> ctx.user) @@ (Key("tenant") :> ctx.tenant) @@
  (Key("groups") :> ctx.groups) @@
  (Key("remote_address") :> ctx.remote_address) @@
  (Key("timestamp") :> isotime(ctx.timestamp)) @@
  (Key("request_id") :> ctx.request_id)

\* from_dict: the context, or the TypeError of the constructor call.
from_dict(values) ==
  IF ArgsAccepted(values) THEN [ok |-> TRUE, ctx |-> RequestContext(values)]
  ELSE [ok |-> FALSE]

\* -------------------------------------------------------- context packing

\* msg.update(context): the context's keys win over msg's.
_pack_context(msg, context) ==
  LET d == to_dict(context)
      packed == [k \in {ContextKey(key) : key \in DOMAIN d} |->
                   d[strip_context(k)]]
  IN packed @@ msg

context_keys(msg) == {key \in DOMAIN msg : startswith_context(key)}

\* _unpack_context popping nothing (a mutant).
popped_keep_all(msg) == msg

\* msg after _unpack_context has popped the context keys.
popped(msg) == Restrict(msg, DOMAIN msg \ context_keys(msg))

context_dict(msg) ==
  [k \in {strip_context(key) : key \in context_keys(msg)} |->
     msg[ContextKey(k)]]

_unpack_context(msg) == from_dict(context_dict(msg))

\* ------------------------------------------------------------ wire values

\* A Python value is a tagged record.  "str", "int", "null", "list" and
\* "dict" are what JSON has; a "tuple" is written as a JSON array; an
\* "object" has named fields (a __dict__) and a "set" has none, and neither
\* can be written as JSON.
StrValue(text) == [t |-> "str", v |-> text]
IntValue(text) == [t |-> "int", v |-> text]
Null == [t |-> "null", v |-> "None"]
Dict(d) == [t |-> "dict", d |-> d]

\* json.dumps raises TypeError for what JSON cannot hold.
Serializable(value) == value.t \in {"str", "int", "null", "list", "tuple", "dict"}

\* What the consumer decodes from what the publisher encoded.
JsonRoundTrip(value) ==
  IF value.t = "tuple" THEN [value EXCEPT !.t = "list"] ELSE value

\* hasattr(reply, '__dict__')
HasDict(value) == value.t = "object"

\* dict((k, repr(v)) for k, v in reply.__dict__.iteritems())
ReprFields(reply) == Dict([k \in DOMAIN reply.d |-> StrValue(reply.d[k].v)])

\* str(value)
StrOf(value) == value.v

NoFailure == << >>

\* --------------------------------------------------------- broker topology

\* Exchange, queue and routing-key names.  '%s.%s' % (topic, host) and
\* '%s_fanout_%s' % (topic, unique) are names with a number in them; 0 is
\* the name without one.
ControlExchange == [x |-> "control", t |-> "nova", n |-> 0]
TopicName(topic) == [x |-> "topic", t |-> topic, n |-> 0]
HostTopicName(topic, host) == [x |-> "topic", t |-> topic, n |-> host]
FanoutExchange(topic) == [x |-> "fanout_exchange", t |-> topic, n |-> 0]
\* The fanout queue named without its uuid (a mutant).
FanoutQueueShared(topic, unique) == [x |-> "fanout", t |-> topic, n |-> 0]
FanoutQueue(topic, unique) == [x |-> "fanout", t |-> topic, n |-> unique]

ServiceTopic == "echo"
Hosts == 1 .. NumServices

\* The three consumers Service.start attaches for the service on `host`;
\* the uuid of its fanout queue is its own.
ServiceConsumers(host) ==
  { [host |-> host, exchange |-> ControlExchange,
     queue |-> TopicName(ServiceTopic)],
    [host |-> host, exchange |-> ControlExchange,
     queue |-> HostTopicName(ServiceTopic, host)],
    [host |-> host, exchange |-> FanoutExchange(ServiceTopic),
     queue |-> FanoutQueue(ServiceTopic, host)] }

Consumers == UNION {ServiceConsumers(host) : host \in Hosts}
Queues == {c.queue : c \in Consumers}

\* A topic exchange handing a message to every queue bound to it (a mutant).
Route_ignoring_key(exchange, routing_key) ==
  {c.queue : c \in {b \in Consumers : b.exchange = exchange}}

\* The queues a publish reaches: a topic exchange matches the routing key
\* against the binding key (the queue's own name here), a fanout exchange
\* ignores it.
Route(exchange, routing_key) ==
  {c.queue : c \in {b \in Consumers :
      /\ b.exchange = exchange
      /\ (exchange.x = "fanout_exchange" \/ b.queue = routing_key)}}

\* ------------------------------------------------------------- the handler

\* EchoManager's methods, and `work`: a method of any other manager, which
\* may return whatever its author likes.
HandlerMethods == {"echo", "context", "fail", "work"}

\* What a Service object has of its own: the methods of the class and the
\* attributes __init__ sets.
ServiceOwn ==
  {"start", "stop", "kill", "wait", "create", "periodic_tasks", "report_state",
   "host", "binary", "topic", "manager_class_name", "manager",
   "report_interval", "periodic_interval", "saved_args", "saved_kwargs",
   "timers"}

\* ExtendedService of the tests: a subclass with a method of its own.
ExtendedServiceOwn == ServiceOwn \cup {"test_method"}

\* What the manager of the echo service has: its methods and the two
\* Service calls on every manager, init_host and periodic_tasks.
ManagerOwn == HandlerMethods \cup {"init_host", "periodic_tasks"}

\* FakeManager of the tests.
FakeManagerOwn == {"test_method", "init_host", "periodic_tasks"}

AttributeError == [found |-> FALSE]
Attribute(owner, key) == [found |-> TRUE, owner |-> owner, key |-> key]

\* Service.__getattr__(key), called when the lookup on the object has
\* missed: getattr(manager, key).
__getattr__(manager, key) ==
  IF key \in manager THEN Attribute("manager", key) ELSE AttributeError

\* The attribute looked up on the manager before the Service (a mutant).
getattr_manager_first(own, manager, key) ==
  IF key \in manager THEN Attribute("manager", key)
  ELSE IF key \in own THEN Attribute("service", key) ELSE AttributeError

\* getattr(service, key): what the object and its class have, and
\* __getattr__ for the rest.
getattr(own, manager, key) ==
  IF key \in own THEN Attribute("service", key)
  ELSE __getattr__(manager, key)

\* getattr(self.proxy, str(method)) finds it; otherwise AttributeError.  The
\* proxy is the Service.
HasMethod(method) == getattr(ServiceOwn, ManagerOwn, method).found

WorkValues ==
  { [t |-> "tuple", v |-> "(1, 2)"],
    [t |-> "object", d |-> (Key("id") :> IntValue("7"))],
    [t |-> "set", v |-> "set([1])"] }

Returned(value) == [kind |-> "return", value |-> value]
Raised(exc_type, value) ==
  [kind |-> "raise", exc_type |-> exc_type, value |-> StrOf(value)]
NoOutcome == [kind |-> "none"]

\* node_func(context=ctxt, **node_args): the outcomes the call can have.
\* Every method here is def m(self, context, value).
\* What the Service has of its own takes no context: the call raises
\* TypeError.  So do init_host and periodic_tasks of the manager, called
\* with a value.
Handler(method, ctxt, node_args) ==
  IF getattr(ServiceOwn, ManagerOwn, method).owner = "service"
  THEN {Raised("TypeError", StrValue("unexpected keyword argument 'context'"))}
  ELSE IF DOMAIN node_args # {Key("value")}
  THEN {Raised("TypeError", StrValue("unexpected arguments"))}
  ELSE CASE method = "echo" -> {Returned(node_args[Key("value")])}
         [] method = "context" -> {Returned(Dict(to_dict(ctxt)))}
         [] method = "fail" -> {Raised("Exception", node_args[Key("value")])}
         [] method = "work" -> {Returned(value) : value \in WorkValues}
         [] OTHER -> {Raised("TypeError", StrValue("unexpected arguments"))}

\* ------------------------------------------------------------- Connection

\* The Connection class has no _instance attribute.
NoInstance == 0

\* The class as it is at import: nothing memoized, no connection constructed.
\* Connections are numbered in the order of their construction; calls is the
\* record of the classmethod calls made directly by a client.
ConnectionClass == [_instance |-> NoInstance, made |-> 0, calls |-> << >>]

\* instance memoizing the connection also when new is true (a mutant).
instance_memoizes_new(cls, new) ==
  IF new \/ cls._instance = NoInstance
  THEN [cls |-> [cls EXCEPT !.made = @ + 1, !._instance = cls.made + 1],
        result |-> cls.made + 1]
  ELSE [cls |-> cls, result |-> cls._instance]

\* Connection.instance(new): the class afterwards and the connection returned.
instance(cls, new) ==
  IF new \/ cls._instance = NoInstance
  THEN IF new
       THEN [cls |-> [cls EXCEPT !.made = @ + 1], result |-> cls.made + 1]
       ELSE [cls |-> [cls EXCEPT !.made = @ + 1, !._instance = cls.made + 1],
             result |-> cls.made + 1]
  ELSE [cls |-> cls, result |-> cls._instance]

\* cls.instance() taken as instance(new=False) (a mutant).
instance_default_memoized(cls) ==
  [cls |-> [cls EXCEPT !.made = @ + 1, !._instance = cls.made + 1],
   result |-> cls.made + 1]

\* instance called with its default argument, new=True.
instance_default(cls) == instance(cls, TRUE)

\* Connection.recreate(): del cls._instance, AttributeError passed over, then
\* cls.instance().
recreate(cls) == instance_default([cls EXCEPT !._instance = NoInstance])

\* ---------------------------------------------------------------- Service

\* FLAGS.report_interval and FLAGS.periodic_interval (lower bound 1).
report_interval_flag == 10
periodic_interval_flag == 60

\* A binary name is the sequence of its pieces, 'nova-' being one piece.
NovaPrefix == "nova-"

RECURSIVE rindex(_, _)
\* The last position of sep in s, 0 when it is not there.
rindex(s, sep) ==
  IF s = << >> THEN 0
  ELSE IF s[Len(s)] = sep THEN Len(s)
  ELSE rindex(SubSeq(s, 1, Len(s) - 1), sep)

\* s.rpartition(sep)[2]
rpartition_tail(s, sep) == SubSeq(s, rindex(s, sep) + 1, Len(s))

\* The text of a sequence of pieces that has one piece.
Text(pieces) == IF Len(pieces) = 1 THEN pieces[1] ELSE None

\* report_interval=None, periodic_interval=None: the constructor's defaults,
\* false in `if self.report_interval`.
NoInterval == 0

\* Service.__init__: the service object, not started, its timer list empty.
\* Of its timers: running are those whose loop goes on firing, winding
\* those told to stop whose loop has not ended yet, and broken those whose
\* stop() and wait() raise (what a stubbed attach_to_eventlet returns, as in
\* test_create).  Of its calls: stops are the timers stop() was invoked on,
\* stop_calls the calls of Service.stop, raised whether an exception left
\* stop or wait, wait_pc where a call of Service.wait is, on the list waits.
Service(host, binary, topic, report_interval, periodic_interval) ==
  [host |-> host, binary |-> binary, topic |-> topic,
   report_interval |-> report_interval,
   periodic_interval |-> periodic_interval,
   state |-> "created", timers |-> << >>, running |-> {}, trace |-> << >>,
   fired |-> 0,
   broken |-> {}, winding |-> {}, stops |-> << >>, stop_calls |-> 0,
   raised |-> FALSE, wait_pc |-> "idle", waits |-> << >>]

\* Service.create(host, binary, topic): the topic not given is the binary's
\* name after 'nova-', and the intervals not given come from the flags.
create(host, binary, topic) ==
  Service(host, binary,
          IF topic = None THEN Text(rpartition_tail(binary, NovaPrefix))
          ELSE topic,
          report_interval_flag, periodic_interval_flag)

\* The timers Service.start appends to self.timers, in its order.
ConsumerTimers == <<"consumer_all", "consumer_node", "fanout">>

\* start constructing the addressed consumer first and attaching the shared
\* one twice (a mutant).
StartTrace_reordered(service) ==
  << "init_host",
     [cls |-> "TopicAdapterConsumer", proxy |-> service.host,
      topic |-> HostTopicName(service.topic, service.host)],
     [cls |-> "TopicAdapterConsumer", proxy |-> service.host,
      topic |-> TopicName(service.topic)],
     [cls |-> "FanoutAdapterConsumer", proxy |-> service.host,
      topic |-> TopicName(service.topic)],
     [attach_to_eventlet |-> "consumer_all"],
     [attach_to_eventlet |-> "consumer_all"],
     [attach_to_eventlet |-> "fanout"] >>

\* What start constructs and attaches, in the order it does.
StartTrace(service) ==
  <<"init_host">> \o
  (IF service.report_interval # 0
   THEN << [cls |-> "TopicAdapterConsumer", proxy |-> service.host,
            topic |-> TopicName(service.topic)],
           [cls |-> "TopicAdapterConsumer", proxy |-> service.host,
            topic |-> HostTopicName(service.topic, service.host)],
           [cls |-> "FanoutAdapterConsumer", proxy |-> service.host,
            topic |-> TopicName(service.topic)],
           [attach_to_eventlet |-> "consumer_all"],
           [attach_to_eventlet |-> "consumer_node"],
           [attach_to_eventlet |-> "fanout"] >>
   ELSE << >>)

\* start making its five timers whatever the intervals are (a mutant).
StartTimers_unconditional(service) == ConsumerTimers \o <<"pulse", "periodic">>

\* The timers start appends to self.timers: the consumers' and the
\* report_state timer under `if self.report_interval`, the periodic_tasks
\* timer under `if self.periodic_interval`.
StartTimers(service) ==
  (IF service.report_interval # 0 THEN ConsumerTimers \o <<"pulse">>
   ELSE << >>) \o
  (IF service.periodic_interval # 0 THEN <<"periodic">> ELSE << >>)

\* The service object after Service.start.
started(service) ==
  [service EXCEPT !.state = "started",
                  !.timers = StartTimers(service),
                  !.running = {StartTimers(service)[i] :
                                 i \in DOMAIN StartTimers(service)},
                  !.trace = StartTrace(service)]

\* The loop of Service.stop without its try (a mutant): the first stop()
\* that raises ends it, and the list is not emptied.
stop_timers_unguarded(timers, broken) ==
  LET bad == {i \in DOMAIN timers : timers[i] \in broken}
      first == CHOOSE i \in bad : \A j \in bad : i <= j
  IN IF bad = {}
     THEN [called |-> timers, raised |-> FALSE, timers |-> << >>]
     ELSE [called |-> SubSeq(timers, 1, first), raised |-> TRUE,
           timers |-> timers]

\* The loop of Service.stop over self.timers and the assignment after it:
\* the timers x.stop() was called on, whether an exception left stop, and
\* self.timers afterwards.
stop_timers(timers, broken) ==
  [called |-> timers, raised |-> FALSE, timers |-> << >>]

\* The service object after Service.stop.  A timer whose stop() returned
\* is told to stop: it fires no more, and its loop ends at its next
\* boundary.  One whose stop() raised is as it was.
stopped(service) ==
  LET r == stop_timers(service.timers, service.broken)
      told == {r.called[i] : i \in DOMAIN r.called} \ service.broken
  IN [service EXCEPT !.state = "stopped",
                     !.timers = r.timers,
                     !.running = @ \ told,
                     !.winding = @ \cup (service.running \cap told),
                     !.stops = @ \o r.called,
                     !.stop_calls = @ + 1,
                     !.raised = @ \/ r.raised]

\* The timer a consumer of a service is attached to.
TimerOf(c) ==
  IF c.queue.x = "fanout" THEN "fanout"
  ELSE IF c.queue.n = 0 THEN "consumer_all" ELSE "consumer_node"

\* The binary every service of the running system was created from.
EchoBinary == <<NovaPrefix, ServiceTopic>>

\* ------------------------------------------------------------------ state

VARIABLES
  queues,    \* the broker's queues: queue name -> sequence of messages
  unacked,   \* messages a consumer fetched and has not acked
  workers,   \* greenthreads of the AdapterConsumers' pools, in _receive
  replyQ,    \* the direct reply queues that exist: msg_id -> sequence
  callers,   \* the client verbs' invocations: message -> its state
  hist,      \* per message copy: acks, handler invocations, replies
  ops,       \* client operations started so far
  pk,        \* a pack / unpack round trip of SpecPack
  svc,       \* the Service objects: host -> service
  conn,      \* the Connection class
  cons,      \* the Consumer objects' connection state: consumer -> state
  net        \* the broker: reachable or not

vars ==
  <<queues, unacked, workers, replyQ, callers, hist, ops, pk,
    svc, conn, cons, net>>
rpcVars ==
  <<queues, unacked, workers, replyQ, callers, hist, ops,
    svc, conn, cons, net>>

\* pop('_msg_id', None)
NoMsgId == 0

Copy(mid, queue) == [mid |-> mid, queue |-> queue]
CopyOf(w) == Copy(w.mid, w.consumer.queue)

\* What is recorded of a copy of a message in a queue: the envelope as it was
\* published, the times a consumer fetched it, its acks, the hosts whose
\* handler was invoked for it, the handler's outcome, the replies published
\* for it and the runs of _receive that have ended; and the outages of the
\* broker there had been when it was published.
NewHist(data) ==
  [data |-> data, fetches |-> 0, acks |-> 0, by |-> << >>,
   outcome |-> NoOutcome, replies |-> << >>, runs |-> 0,
   outages |-> net.drops]

\* The copies of the message published by operation mid, one per queue.
CopiesOf(mid) == {copy \in DOMAIN hist : copy.mid = mid}

PkIdle == [pc |-> "idle"]

\* A consumer as Consumer.__init__ leaves it: connected, the flag clear.
\* link is the state of its backend's channel; recovery is what the last
\* fetch that met or left a failure did, step by step.
\* connection is the Connection object it was given, by its number.
Connected(connection) ==
  [failed_connection |-> FALSE, link |-> TRUE, recovery |-> << >>,
   connection |-> connection]

\* Service.start gives conn1 to the shared-topic consumer, conn2 to the
\* addressed one and conn3 to the fanout one: the connection of consumer c
\* when `made` connections had been constructed before start.
ConnectionAtStart(c, made) ==
  made + (CHOOSE i \in DOMAIN ConsumerTimers : ConsumerTimers[i] = TimerOf(c))

\* The consumers of services started one after the other, in the order of
\* their hosts.
StartedInOrder(c) ==
  Connected(ConnectionAtStart(c, Len(ConsumerTimers) * (c.host - 1)))

\* The broker, reachable; drops counts the times it went away, and
\* outage_fetches the fetches made while it was away.
NetUp == [up |-> TRUE, drops |-> 0, outage_fetches |-> 0]

\* The queues that have been declared: those of the consumers constructed.
DeclaredQueues == {c.queue : c \in DOMAIN cons}

Init ==
  /\ queues = [q \in Queues |-> << >>]
  /\ unacked = {}
  /\ workers = {}
  /\ replyQ = << >>
  /\ callers = << >>
  /\ hist = << >>
  /\ ops = 0
  /\ pk = PkIdle
  /\ svc = [host \in Hosts |-> started(create(host, EchoBinary, None))]
  /\ conn = [ConnectionClass EXCEPT !.made = 3 * NumServices]
  /\ cons = [c \in Consumers |-> StartedInOrder(c)]
  /\ net = NetUp

\* ---------------------------------------------------------------- clients

Request(method, value) ==
  (Key("method") :> method) @@ (Key("args") :> (Key("value") :> value))

\* {"args": {}}: the envelope with no method.
NoMethodMsg == (Key("args") :> EmptyDict)

\* The msg mappings handed to call, to cast and to fanout_cast.
CallMsgs ==
  { Request("echo", StrValue("hi")), Request("echo", IntValue("42")),
    Request("fail", StrValue("boom")), Request("context", Null),
    Request("work", Null), Request("nosuch", Null), Request("", Null),
    NoMethodMsg }
CastMsgs ==
  { Request("echo", StrValue("hi")), Request("fail", StrValue("boom")),
    NoMethodMsg }
FanoutMsgs == { Request("echo", StrValue("hi")) }

\* The caller's context.
ClientContext ==
  RequestContext(
    (Key("tenant") :> "t1") @@ (Key("user") :> "u1") @@
    (Key("groups") :> <<"g1">>) @@ (Key("remote_address") :> "10.0.0.1") @@
    (Key("timestamp") :> [sec |-> 5, usec |-> 7]) @@
    (Key("request_id") :> "RID1"))

\* The JSON mappings given to send_message on the command line: it packs no
\* context, so the envelope has the _context_ keys its user typed, if any.
RawMsgs ==
  { NoMethodMsg,
    (ContextKey(Key("tenant")) :> "t1") @@ (ContextKey(Key("user")) :> "u1")
      @@ Request("echo", StrValue("hi")),
    (ContextKey(Key("bogus")) :> "x") @@
      _pack_context(Request("echo", StrValue("hi")), ClientContext) }

ClientTopics == {TopicName(ServiceTopic)}

\* publisher.send on an exchange of the broker: a copy of the message goes
\* to every queue the exchange routes it to.
Publish(exchange, routing_key, mid, data) ==
  LET to == Route(exchange, routing_key) \cap DeclaredQueues
  IN /\ net.up
     /\ queues' = [q \in Queues |->
                     IF q \in to
                     THEN Append(queues[q], [mid |-> mid, data |-> data])
                     ELSE queues[q]]
     /\ hist' = [copy \in {Copy(mid, q) : q \in to} |-> NewHist(data)] @@ hist

\* Every call using the same reply id (a mutant).
NewMsgId_same == MaxMsgs

\* uuid.uuid4().hex: never the same twice.
NewMsgId == ops + 1

\* The publisher of cast tried again when the broker is away (a mutant).
send_retried(up) == [attempts |-> IF up THEN 1 ELSE 2, raised |-> ~up]

\* The publisher made and publisher.send(msg) in cast and fanout_cast: the
\* attempts made, and whether the exception of a broker that is away leaves
\* the verb.
send_once(up) == [attempts |-> 1, raised |-> ~up]

\* What is kept of a cast or a fanout_cast: how it ended.
OneWay(verb, sent) ==
  [verb |-> verb, attempts |-> sent.attempts,
   state |-> IF sent.raised THEN "raised" ELSE "returned"]

cast(context, topic, msg) ==
  LET sent == send_once(net.up)
  IN /\ ops < MaxMsgs
     /\ ops' = ops + 1
     /\ IF sent.raised THEN UNCHANGED <<queues, hist>>
        ELSE Publish(ControlExchange, topic, ops + 1,
                     _pack_context(msg, context))
     /\ callers' = ((ops + 1) :> OneWay("cast", sent)) @@ callers
     /\ UNCHANGED <<unacked, workers, replyQ, pk, svc, conn, cons, net>>

fanout_cast(context, topic, msg) ==
  LET sent == send_once(net.up)
  IN /\ ops < MaxMsgs
     /\ ops' = ops + 1
     /\ IF sent.raised THEN UNCHANGED <<queues, hist>>
        ELSE Publish(FanoutExchange(topic), TopicName(topic), ops + 1,
                     _pack_context(msg, context))
     /\ callers' = ((ops + 1) :> OneWay("fanout_cast", sent)) @@ callers
     /\ UNCHANGED <<unacked, workers, replyQ, pk, svc, conn, cons, net>>

\* call, up to consumer.wait: the reply queue is declared, then the request
\* is published.
call(context, topic, msg) ==
  LET msg_id == NewMsgId
      data == _pack_context((Key("_msg_id") :> msg_id) @@ msg, context)
  IN /\ ops < MaxMsgs
     /\ ops' = ops + 1
     /\ replyQ' = (msg_id :> << >>) @@ replyQ
     /\ callers' = ((ops + 1) :> [verb |-> "call", msg_id |-> msg_id,
                                  state |-> "waiting"]) @@ callers
     /\ Publish(ControlExchange, topic, ops + 1, data)
     /\ UNCHANGED <<unacked, workers, pk, svc, conn, cons, net>>

\* send_message(topic, message, wait=True), up to consumer.wait.
send_message(topic, message) ==
  LET msg_id == NewMsgId
      data == (Key("_msg_id") :> msg_id) @@ message
  IN /\ ops < MaxMsgs
     /\ ops' = ops + 1
     /\ replyQ' = (msg_id :> << >>) @@ replyQ
     /\ callers' = ((ops + 1) :> [verb |-> "send_message", msg_id |-> msg_id,
                                  state |-> "waiting"]) @@ callers
     /\ Publish(ControlExchange, topic, ops + 1, data)
     /\ UNCHANGED <<unacked, workers, pk, svc, conn, cons, net>>

\* -------------------------------------------------------------- msg_reply

\* traceback.format_exception(*failure)
Traceback == "Traceback (most recent call last): ..."

NoExcInfo == [kind |-> "none"]

\* msg_reply sending no result (a mutant).
msg_reply_no_result(msg_id, reply, failure) ==
  [sent |-> <<[exchange |-> msg_id,
               body |-> [result |-> Null, failure |-> NoFailure]]>>,
   raised |-> FALSE]

\* msg_reply(msg_id, reply, failure): what it publishes on the direct
\* exchange msg_id, and whether it raises.  failure is a sys.exc_info() or
\* nothing.  A reply JSON cannot hold is sent as the mapping of its fields'
\* reprs; without fields, reply.__dict__ raises AttributeError.
msg_reply(msg_id, reply, failure) ==
  LET tuple == IF failure.kind = "raise"
               THEN <<failure.exc_type, failure.value, Traceback>>
               ELSE NoFailure
      Sent(result) ==
        <<[exchange |-> msg_id,
           body |-> [result |-> result, failure |-> tuple]]>>
  IN IF Serializable(reply)
     THEN [sent |-> Sent(JsonRoundTrip(reply)), raised |-> FALSE]
     ELSE IF HasDict(reply)
          THEN [sent |-> Sent(ReprFields(reply)), raised |-> FALSE]
          ELSE [sent |-> << >>, raised |-> TRUE]

\* The direct exchange msg_id routes to the queue msg_id while the caller's
\* DirectConsumer has it declared; otherwise the broker drops the message.
RECURSIVE Routed(_, _)
Routed(rq, sent) ==
  IF sent = << >> THEN rq
  ELSE LET s == Head(sent)
           next == IF s.exchange \in DOMAIN rq
                   THEN [rq EXCEPT ![s.exchange] = Append(@, s.body)]
                   ELSE rq
       IN Routed(next, Tail(sent))

\* ------------------------------------------------------- AdapterConsumer

\* The parent's fetch(enable_callbacks=True) with the channel working: the
\* message at the head of the queue, if there is one, is handed to
\* AdapterConsumer.receive, which spawns _receive on the pool.  The message
\* belongs to the channel it came from: channel counts the broker's drops.
receive(c) ==
  IF queues[c.queue] = << >>
  THEN UNCHANGED <<queues, unacked, workers, hist>>
  ELSE LET message == Head(queues[c.queue])
           copy == Copy(message.mid, c.queue)
       IN /\ queues' = [queues EXCEPT ![c.queue] = Tail(@)]
          /\ unacked' = unacked \cup {[queue |-> c.queue, message |-> message]}
          /\ workers' = workers \cup
               {[consumer |-> c, mid |-> message.mid, channel |-> net.drops,
                 message_data |-> message.data, pc |-> "spawned"]}
          /\ hist' = [hist EXCEPT ![copy].fetches = @ + 1]

\* Consumer.fetch reconnecting on the memoized connection, as
\* instance(new=False) would give it (a mutant).
reconnect_shared(cls) == instance(cls, FALSE)

\* self.connection = Connection.recreate(), in Consumer.fetch.
reconnect(cls) == recreate(cls)

\* Consumer.fetch without its except clause (a mutant): the exception
\* leaves fetch with the flag as it was.
fetch_steps_uncaught(failed, link, up, raise_at) ==
  LET ok == IF failed THEN up ELSE link
  IN [ok |-> ok,
      steps |-> IF ok THEN <<"fetch">> ELSE <<"fetch", "raised">>,
      failed_connection |-> failed /\ ~ok,
      link |-> IF failed THEN up ELSE link,
      propagates |-> ~ok]

\* Consumer.fetch never reconnecting (a mutant): with the flag set it pulls
\* on the channel it has.
fetch_steps_no_reconnect(failed, link, up, raise_at) ==
  [ok |-> link,
   steps |-> IF link THEN <<"fetch">>
             ELSE IF failed THEN <<"fetch", "raised">>
             ELSE <<"fetch", "raised", "log_failed", "set_flag">>,
   failed_connection |-> ~link,
   link |-> link,
   propagates |-> FALSE]

\* Consumer.fetch clearing the flag before the parent's fetch (a mutant).
fetch_steps_cleared_early(failed, link, up, raise_at) ==
  [ok |-> IF failed THEN up ELSE link,
   steps |-> IF failed
             THEN <<"recreate", "clear_flag", "create_backend", "declare">>
                  \o (IF up THEN <<"fetch">> ELSE <<"raised">>)
             ELSE IF link THEN <<"fetch">>
             ELSE <<"fetch", "raised", "log_failed", "set_flag">>,
   failed_connection |-> IF failed THEN FALSE ELSE ~link,
   link |-> IF failed THEN up ELSE link,
   propagates |-> FALSE]

\* What Consumer.fetch does for a consumer whose flag is `failed` and whose
\* channel is working or not (link), with the broker reachable or not (up);
\* raise_at is the step of the reconnection that raises when the broker is
\* away.  ok: the parent's fetch was reached and did not raise.
fetch_steps(failed, link, up, raise_at) ==
  LET reconnected == failed /\ up
      ok == IF failed THEN up ELSE link
      before == IF ~failed THEN << >>
                ELSE IF up THEN <<"recreate", "create_backend", "declare">>
                ELSE IF raise_at = "create_backend"
                THEN <<"recreate", "create_backend">>
                ELSE <<"recreate", "create_backend", "declare">>
      pull == IF ok THEN <<"fetch">>
              ELSE IF failed THEN << >> ELSE <<"fetch">>
      after == IF ok
               THEN IF failed THEN <<"log_reconnected", "clear_flag">>
                    ELSE << >>
               ELSE <<"raised">> \o
                    (IF failed THEN << >> ELSE <<"log_failed", "set_flag">>)
  IN [ok |-> ok, steps |-> before \o pull \o after,
      failed_connection |-> ~ok,
      link |-> IF failed THEN up ELSE link,
      propagates |-> FALSE]

RaisePoints == {"create_backend", "declare"}

\* Consumer.fetch(enable_callbacks=True), fired by the consumer's timer.  An
\* exception that left fetch would end the timer's loop.  A fetch on a sound
\* channel that finds its queue empty leaves every variable as it was: it is
\* the stuttering step every specification allows, and the action is written
\* for the fetches that change something.
fetch(c) ==
  /\ TimerOf(c) \in svc[c.host].running
  /\ \E raise_at \in IF cons[c].failed_connection /\ ~net.up
                     THEN RaisePoints ELSE {"create_backend"} :
       LET consumer == cons[c]
           f == fetch_steps(consumer.failed_connection, consumer.link,
                            net.up, raise_at)
           plain == ~consumer.failed_connection /\ f.ok
       IN /\ net.up \/ net.outage_fetches < MaxOutageFetches
          /\ ~plain \/ ~net.up \/ queues[c.queue] # << >>
          /\ conn' = IF consumer.failed_connection THEN reconnect(conn).cls
                     ELSE conn
          /\ cons' = [cons EXCEPT ![c] =
               [failed_connection |-> f.failed_connection, link |-> f.link,
                recovery |-> IF plain THEN consumer.recovery ELSE f.steps,
                connection |-> IF consumer.failed_connection
                               THEN reconnect(conn).result
                               ELSE consumer.connection]]
          /\ net' = IF net.up THEN net
                    ELSE [net EXCEPT !.outage_fetches = @ + 1]
          /\ IF f.ok THEN receive(c)
             ELSE UNCHANGED <<queues, unacked, workers, hist>>
          /\ svc' = IF f.propagates
                    THEN [svc EXCEPT ![c.host].running = @ \ {TimerOf(c)}]
                    ELSE svc
  /\ UNCHANGED <<replyQ, callers, ops, pk>>

Finished(w) == workers' = workers \ {w}

Moved(w, next) == workers' = (workers \ {w}) \cup {next}

Acked(w) == {u \in unacked : u.queue = w.consumer.queue /\ u.message.mid = w.mid}

\* _receive_ack with the ack left out (a mutant).
_receive_no_ack(w) ==
  LET msg_id == Get(w.message_data, Key("_msg_id"), NoMsgId)
      data == Restrict(w.message_data,
                       DOMAIN w.message_data \ {Key("_msg_id")})
      ctxt == _unpack_context(data)
  IN /\ w.pc = "spawned"
     /\ IF ctxt.ok /\ w.channel = net.drops
        THEN /\ Moved(w, [consumer |-> w.consumer, mid |-> w.mid,
                          channel |-> w.channel,
                          message_data |-> popped(data), msg_id |-> msg_id,
                          ctxt |-> ctxt.ctx, pc |-> "acked"])
             /\ UNCHANGED <<unacked, hist>>
        ELSE /\ Finished(w)
             /\ hist' = [hist EXCEPT ![CopyOf(w)].runs = @ + 1]
             /\ UNCHANGED unacked
     /\ UNCHANGED <<queues, replyQ, callers, ops, pk, svc, conn, cons, net>>

\* _receive, from its start to message.ack(): the reply id and the context
\* are taken out of the envelope.  When RequestContext.from_dict raises, the
\* greenthread ends there, before the ack; and it ends at the ack when the
\* channel the message came from went away with the broker.
_receive_ack(w) ==
  LET msg_id == Get(w.message_data, Key("_msg_id"), NoMsgId)
      data == Restrict(w.message_data,
                       DOMAIN w.message_data \ {Key("_msg_id")})
      ctxt == _unpack_context(data)
  IN /\ w.pc = "spawned"
     /\ IF ctxt.ok /\ w.channel = net.drops
        THEN /\ Moved(w, [consumer |-> w.consumer, mid |-> w.mid,
                          channel |-> w.channel,
                          message_data |-> popped(data), msg_id |-> msg_id,
                          ctxt |-> ctxt.ctx, pc |-> "acked"])
             /\ unacked' = unacked \ Acked(w)
             /\ hist' = [hist EXCEPT ![CopyOf(w)].acks = @ + 1]
        ELSE /\ Finished(w)
             /\ hist' = [hist EXCEPT ![CopyOf(w)].runs = @ + 1]
             /\ UNCHANGED unacked
     /\ UNCHANGED <<queues, replyQ, callers, ops, pk, svc, conn, cons, net>>

method_of(message_data) == Get(message_data, Key("method"), None)
args_of(message_data) == Get(message_data, Key("args"), EmptyDict)

\* not method
NoMethod(method) == method \in {None, ""}

NoMethodText == StrValue("No method for message: ...")

\* _receive after the ack, up to the call of the handler method.  With no
\* method the error string is sent with msg_reply, whatever msg_id is; an
\* unknown method raises AttributeError out of getattr, outside the try.
_receive_dispatch(w) ==
  LET method == method_of(w.message_data)
      copy == CopyOf(w)
  IN /\ w.pc = "acked"
     /\ IF NoMethod(method)
        THEN LET r == msg_reply(w.msg_id, NoMethodText, NoExcInfo)
             IN /\ Finished(w)
                /\ replyQ' = Routed(replyQ, r.sent)
                /\ hist' = [hist EXCEPT ![copy].replies = @ \o r.sent,
                                        ![copy].runs = @ + 1]
        ELSE IF ~HasMethod(method)
        THEN /\ Finished(w)
             /\ hist' = [hist EXCEPT ![copy].runs = @ + 1]
             /\ UNCHANGED replyQ
        ELSE /\ Moved(w, [w EXCEPT !.pc = "running"])
             /\ hist' = [hist EXCEPT ![copy].by = Append(@, w.consumer.host)]
             /\ UNCHANGED replyQ
     /\ UNCHANGED <<queues, unacked, callers, ops, pk, svc, conn, cons, net>>

\* The except clause only logging (a mutant).
Replies_failure_dropped(msg_id, outcome) ==
  IF msg_id = NoMsgId \/ outcome.kind = "raise" THEN << >>
  ELSE msg_reply(msg_id, outcome.value, NoExcInfo).sent

\* What the try / except around the handler call publishes for an outcome:
\* the result, or the failure; and the failure too when msg_reply raised
\* while sending the result.
Replies(msg_id, outcome) ==
  IF msg_id = NoMsgId THEN << >>
  ELSE IF outcome.kind = "return"
  THEN LET r == msg_reply(msg_id, outcome.value, NoExcInfo)
       IN IF r.raised
          THEN r.sent \o
               msg_reply(msg_id, Null,
                         Raised("AttributeError", StrValue("__dict__"))).sent
          ELSE r.sent
  ELSE msg_reply(msg_id, Null, outcome).sent

\* _receive_handler calling the method again after it raised (a mutant).
_receive_handler_retry(w) ==
  /\ w.pc = "running"
  /\ \E outcome \in Handler(method_of(w.message_data), w.ctxt,
                            args_of(w.message_data)) :
       LET sent == Replies(w.msg_id, outcome)
       IN /\ IF outcome.kind = "raise"
             THEN Moved(w, [w EXCEPT !.pc = "acked"])
             ELSE Finished(w)
          /\ replyQ' = Routed(replyQ, sent)
          /\ hist' = [hist EXCEPT ![CopyOf(w)].outcome = outcome,
                                  ![CopyOf(w)].replies = @ \o sent,
                                  ![CopyOf(w)].runs = @ + 1]
  /\ UNCHANGED <<queues, unacked, callers, ops, pk, svc, conn, cons, net>>

\* _receive without its except clause (a mutant): what the handler raises
\* leaves the greenthread and ends the consumer's fetch timer.
_receive_handler_uncaught(w) ==
  /\ w.pc = "running"
  /\ \E outcome \in Handler(method_of(w.message_data), w.ctxt,
                            args_of(w.message_data)) :
       LET sent == IF outcome.kind = "raise" THEN << >>
                   ELSE Replies(w.msg_id, outcome)
       IN /\ Finished(w)
          /\ replyQ' = Routed(replyQ, sent)
          /\ hist' = [hist EXCEPT ![CopyOf(w)].outcome = outcome,
                                  ![CopyOf(w)].replies = @ \o sent,
                                  ![CopyOf(w)].runs = @ + 1]
          /\ svc' = IF outcome.kind = "raise"
                    THEN [svc EXCEPT ![w.consumer.host].running =
                                       @ \ {TimerOf(w.consumer)}]
                    ELSE svc
  /\ UNCHANGED <<queues, unacked, callers, ops, pk, conn, cons, net>>

\* The handler method returns or raises, and _receive replies.
_receive_handler(w) ==
  /\ w.pc = "running"
  /\ \E outcome \in Handler(method_of(w.message_data), w.ctxt,
                            args_of(w.message_data)) :
       LET sent == Replies(w.msg_id, outcome)
       IN /\ Finished(w)
          /\ replyQ' = Routed(replyQ, sent)
          /\ hist' = [hist EXCEPT ![CopyOf(w)].outcome = outcome,
                                  ![CopyOf(w)].replies = @ \o sent,
                                  ![CopyOf(w)].runs = @ + 1]
  /\ UNCHANGED <<queues, unacked, callers, ops, pk, svc, conn, cons, net>>

\* The broker gives a message that was fetched and never acked to the queue
\* again, once the greenthread that had it is gone.
Redeliver(u) ==
  LET copy == Copy(u.message.mid, u.queue)
  IN /\ hist[copy].fetches <= MaxRedeliver
     /\ \A w \in workers : CopyOf(w) # copy
     /\ unacked' = unacked \ {u}
     /\ queues' = [queues EXCEPT ![u.queue] = Append(@, u.message)]
     /\ UNCHANGED <<workers, replyQ, callers, hist, ops, pk, svc, conn, cons, net>>

\* ------------------------------------------------------------- the caller

\* RemoteError(exc_type, value, traceback) and its '%s %s\n%s' message.
RemoteError(exc_type, value, traceback) ==
  [exc_type |-> exc_type, value |-> value, traceback |-> traceback,
   message |-> <<exc_type, " ", value, "\n", traceback>>]

\* call, from the reply's arrival: WaitMessage acks it and keeps the result
\* or the RemoteError, wait(limit=1) ends, the consumer is closed (its queue
\* is auto-delete) and the result is returned or raised.
call_return(mid) ==
  LET caller == callers[mid]
      data == Head(replyQ[caller.msg_id])
      failure == data.failure
  IN /\ caller.verb = "call"
     /\ caller.state = "waiting"
     /\ replyQ[caller.msg_id] # << >>
     /\ callers' = [callers EXCEPT ![mid] =
          IF failure # NoFailure
          THEN [verb |-> "call", msg_id |-> caller.msg_id,
                state |-> "raised",
                result |-> RemoteError(failure[1], failure[2], failure[3])]
          ELSE [verb |-> "call", msg_id |-> caller.msg_id,
                state |-> "returned", result |-> data.result]]
     /\ replyQ' = Restrict(replyQ, DOMAIN replyQ \ {caller.msg_id})
     /\ UNCHANGED <<queues, unacked, workers, hist, ops, pk, svc, conn, cons, net>>

\* wait_msg.result read when WaitMessage was never called.
NoResultAttribute ==
  [exc_type |-> "AttributeError",
   value |-> "'WaitMessage' object has no attribute 'result'"]

\* call, when the wait iterator of its consumer ends and no reply was handed
\* to the callback (the channel went away with the broker): StopIteration
\* is passed over, the consumer is closed, and wait_msg.result is read.
call_wait_ends(mid) ==
  LET caller == callers[mid]
  IN /\ caller.verb = "call"
     /\ caller.state = "waiting"
     /\ ~net.up
     /\ callers' = [callers EXCEPT ![mid] =
          [verb |-> "call", msg_id |-> caller.msg_id, state |-> "raised",
           result |-> NoResultAttribute]]
     /\ replyQ' = Restrict(replyQ, DOMAIN replyQ \ {caller.msg_id})
     /\ UNCHANGED <<queues, unacked, workers, hist, ops, pk, svc, conn, cons, net>>

\* generic_response: send_message's callback acks, logs and exits.
generic_response(mid) ==
  LET caller == callers[mid]
  IN /\ caller.verb = "send_message"
     /\ caller.state = "waiting"
     /\ replyQ[caller.msg_id] # << >>
     /\ callers' = [callers EXCEPT ![mid].state = "exited"]
     /\ replyQ' = Restrict(replyQ, DOMAIN replyQ \ {caller.msg_id})
     /\ UNCHANGED <<queues, unacked, workers, hist, ops, pk, svc, conn, cons, net>>

\* ---------------------------------------------------------- specification

\* The consumers' side: the fetch timers and the pools' greenthreads.
Consume ==
  \/ \E c \in DOMAIN cons : fetch(c)
  \/ \E w \in workers : _receive_ack(w)
  \/ \E w \in workers : _receive_dispatch(w)
  \/ \E w \in workers : _receive_handler(w)

Calls ==
  \/ \E msg \in CallMsgs, topic \in ClientTopics :
       call(ClientContext, topic, msg)
  \/ \E mid \in DOMAIN callers : call_return(mid)

Casts ==
  \/ \E msg \in CastMsgs, topic \in ClientTopics :
       cast(ClientContext, topic, msg)
  \/ \E message \in RawMsgs, topic \in ClientTopics :
       send_message(topic, message)
  \/ \E mid \in DOMAIN callers : generic_response(mid)
  \/ \E u \in unacked : Redeliver(u)

FanoutCasts ==
  \E msg \in FanoutMsgs : fanout_cast(ClientContext, ServiceTopic, msg)

Next == Calls \/ Casts \/ FanoutCasts \/ Consume

\* Every client verb against the running services.
Spec == Init /\ [][Next]_vars

\* Concurrent calls only.
SpecCall == Init /\ [][Calls \/ Consume]_vars

\* Concurrent calls with the scheduling the greenthreads get: a fetch timer
\* keeps firing, a greenthread of the pool that can take its next step takes
\* it (the handler method terminates), and a caller whose reply has arrived
\* is woken.
SpecCallLive ==
  /\ Init
  /\ [][Calls \/ Consume]_vars
  /\ WF_vars(Consume)
  /\ WF_vars(\E mid \in DOMAIN callers : call_return(mid))

\* One-way messages only: cast and send_message, whose envelopes may lack a
\* method or a usable context.
SpecCast == Init /\ [][Casts \/ Consume]_vars

\* Broadcasts only.
SpecFanout == Init /\ [][FanoutCasts \/ Consume]_vars

\* ------------------------------------------------------ the Service as proxy

\* Envelopes naming a method of the manager, one the Service and the manager
\* both have, one only the Service has, one only the manager's base class
\* has, and one nobody has.
ProxyMsgs ==
  { Request("echo", StrValue("hi")), Request("periodic_tasks", Null),
    Request("stop", Null), Request("init_host", Null),
    Request("nosuch", Null) }

\* The Service classes and managers of the tests, and of the echo service.
ProxyClasses ==
  { [own |-> ServiceOwn, manager |-> FakeManagerOwn],
    [own |-> ExtendedServiceOwn, manager |-> FakeManagerOwn],
    [own |-> ServiceOwn, manager |-> ManagerOwn] }

LookupKeys == {"test_method", "stop", "periodic_tasks", "echo", "nosuch"}

\* serv.<key>, as in serv.test_method().
lookup(class, key) ==
  /\ pk = PkIdle
  /\ pk' = [pc |-> "getattr", class |-> class, key |-> key,
            attr |-> getattr(class.own, class.manager, key)]
  /\ UNCHANGED rpcVars

Proxy ==
  \/ \E class \in ProxyClasses, key \in LookupKeys : lookup(class, key)
  \/ \E msg \in ProxyMsgs, topic \in ClientTopics :
       cast(ClientContext, topic, msg)

\* Attributes looked up on the Service, by its user and by the consumers it
\* is the proxy of.
SpecProxy == Init /\ [][Proxy \/ Consume]_vars

\* ------------------------------------------------- pack / unpack round trip

\* The keyword arguments a caller may build its RequestContext from.
Optional(key, values) == {EmptyDict} \cup {(key :> v) : v \in values}

PackContexts ==
  { RequestContext((Key("tenant") :> tenant) @@ (Key("user") :> user) @@
                   groups @@ remote_address @@ timestamp @@ request_id) :
      tenant \in {"t1", None}, user \in {"u1", None},
      groups \in Optional(Key("groups"), {<<"g1">>, <<"g1", "g2">>}),
      remote_address \in Optional(Key("remote_address"), {"10.0.0.1"}),
      timestamp \in Optional(Key("timestamp"),
                             {[sec |-> 5, usec |-> 0], [sec |-> 5, usec |-> 7],
                              [iso |-> 6]}),
      request_id \in Optional(Key("request_id"), {"RID1"}) }

\* Message mappings with no _context_ key.
PackMsgs ==
  { EmptyDict, NoMethodMsg, Request("echo", StrValue("hi")),
    (Key("_msg_id") :> 1) @@ Request("echo", StrValue("hi")) }

InitPack ==
  /\ queues = [q \in Queues |-> << >>]
  /\ unacked = {}
  /\ workers = {}
  /\ replyQ = << >>
  /\ callers = << >>
  /\ hist = << >>
  /\ ops = 0
  /\ pk \in {[pc |-> "input", msg |-> msg, ctx |-> ctx] :
               msg \in PackMsgs, ctx \in PackContexts}
  /\ svc = [host \in Hosts |-> started(create(host, EchoBinary, None))]
  /\ conn = [ConnectionClass EXCEPT !.made = 3 * NumServices]
  /\ cons = [c \in Consumers |-> StartedInOrder(c)]
  /\ net = NetUp

\* _pack_context(msg, context), on the caller's side.
Pack ==
  /\ pk.pc = "input"
  /\ pk' = [pc |-> "packed", msg |-> pk.msg, ctx |-> pk.ctx,
            packed |-> _pack_context(pk.msg, pk.ctx)]
  /\ UNCHANGED rpcVars

\* _unpack_context(msg), on the receiver's side: msg is left without its
\* context keys and the context is returned.
Unpack ==
  /\ pk.pc = "packed"
  /\ pk' = [pc |-> "unpacked", msg |-> pk.msg, ctx |-> pk.ctx,
            packed |-> pk.packed, residual |-> popped(pk.packed),
            out |-> _unpack_context(pk.packed)]
  /\ UNCHANGED rpcVars

NextPack == Pack \/ Unpack

SpecPack == InitPack /\ [][NextPack]_vars

\* ----------------------------------------------- RequestContext.request_id

\* Text in this section is a sequence of one-character strings.
\* chars = 'ABCDEFGHIJKLMNOPQRSTUVWXYZ1234567890-'
chars ==
  <<"A", "B", "C", "D", "E", "F", "G", "H", "I", "J", "K", "L", "M",
    "N", "O", "P", "Q", "R", "S", "T", "U", "V", "W", "X", "Y", "Z",
    "1", "2", "3", "4", "5", "6", "7", "8", "9", "0", "-">>

\* xrange(20)
RequestIdLength == 20

\* random.choice(seq), the generator having produced the number r.
choice(seq, r) == seq[(r % Len(seq)) + 1]

\* The numbers a generator produces, one per draw: the generators tried
\* start anywhere in the alphabet and step through it by a fixed stride.
Strides == {0, 1, 7}
Generators == [seed : 0 .. Len(chars) - 1, stride : Strides]
random(generator, x) == generator.seed + x * generator.stride

\* `not request_id`: None and the empty string are false.
not(value) == value = Null \/ (value.t = "str" /\ value.v = << >>)

\* ''.join([random.choice(chars) for x in xrange(19)])
join_choices_short(generator) ==
  [x \in 1 .. RequestIdLength - 1 |-> choice(chars, random(generator, x - 1))]

\* ''.join([random.choice(chars) for x in xrange(20)])
join_choices(generator) ==
  [x \in 1 .. RequestIdLength |-> choice(chars, random(generator, x - 1))]

\* self.request_id, for the request_id argument of the constructor.
request_id_of(request_id, generator) ==
  IF not(request_id) THEN StrValue(join_choices(generator)) ELSE request_id

\* ------------------------------------------------- request ids of contexts

\* The request_id arguments tried: the default, the empty string, one of the
\* generated form, and ones that are not.
RequestIdArgs ==
  { Null, StrValue(<< >>), StrValue(<<"r", "1">>),
    StrValue([x \in 1 .. RequestIdLength |-> "Z"]),
    StrValue([x \in 1 .. RequestIdLength + 1 |-> "-"]) }

InitRequestId ==
  /\ queues = [q \in Queues |-> << >>]
  /\ unacked = {}
  /\ workers = {}
  /\ replyQ = << >>
  /\ callers = << >>
  /\ hist = << >>
  /\ ops = 0
  /\ pk \in {[pc |-> "args", given |-> request_id, generator |-> generator] :
               request_id \in RequestIdArgs, generator \in Generators}
  /\ svc = [host \in Hosts |-> started(create(host, EchoBinary, None))]
  /\ conn = [ConnectionClass EXCEPT !.made = 3 * NumServices]
  /\ cons = [c \in Consumers |-> StartedInOrder(c)]
  /\ net = NetUp

\* RequestContext(tenant, user, request_id=...): the request_id it ends with.
Construct ==
  /\ pk.pc = "args"
  /\ pk' = [pc |-> "constructed", given |-> pk.given,
            generator |-> pk.generator,
            request_id |-> request_id_of(pk.given, pk.generator)]
  /\ UNCHANGED rpcVars

SpecRequestId == InitRequestId /\ [][Construct]_vars

\* ------------------------------------------------------- service lifecycle

\* The binary names a launcher runs the echo service under.
BinaryNames ==
  { <<NovaPrefix, ServiceTopic>>, <<NovaPrefix, NovaPrefix, ServiceTopic>>,
    <<ServiceTopic>> }

\* The services created and not started: no consumer, no connection yet.
InitService ==
  /\ queues = [q \in Queues |-> << >>]
  /\ unacked = {}
  /\ workers = {}
  /\ replyQ = << >>
  /\ callers = << >>
  /\ hist = << >>
  /\ ops = 0
  /\ pk = PkIdle
  /\ \E binary \in BinaryNames, topic \in {None, ServiceTopic} :
       svc = [host \in Hosts |-> create(host, binary, topic)]
  /\ conn = ConnectionClass
  /\ cons = << >>
  /\ net = NetUp

\* Service.start: init_host, three new connections, the three consumers
\* constructed and attached to their fetch timers, then the two periodic
\* timers.
start(host) ==
  LET conn1 == instance(conn, TRUE)
      conn2 == instance(conn1.cls, TRUE)
      conn3 == instance(conn2.cls, TRUE)
  IN /\ svc[host].state = "created"
     /\ net.up
     /\ svc' = [svc EXCEPT ![host] = started(@)]
     /\ conn' = conn3.cls
     /\ cons' = IF svc[host].report_interval # 0
                THEN [c \in ServiceConsumers(host) |->
                        Connected(CASE TimerOf(c) = "consumer_all" ->
                                         conn1.result
                                    [] TimerOf(c) = "consumer_node" ->
                                         conn2.result
                                    [] OTHER -> conn3.result)] @@ cons
                ELSE cons
     /\ UNCHANGED <<queues, unacked, workers, replyQ, callers, hist, ops,
                    pk, net>>

\* Service.stop: stop every timer, forget them.  It may be called again.
stop(host) ==
  /\ svc[host].state \in {"started", "stopped"}
  /\ svc[host].stop_calls < MaxStops
  /\ svc' = [svc EXCEPT ![host] = stopped(@)]
  /\ UNCHANGED <<queues, unacked, workers, replyQ, callers, hist, ops, pk,
                 conn, cons, net>>

\* Service.kill: self.stop().
kill(host) == stop(host)

\* A timer told to stop reaches the boundary of its loop, and the loop ends.
loop_exit(host) ==
  /\ \E t \in svc[host].winding :
       svc' = [svc EXCEPT ![host].winding = @ \ {t}]
  /\ UNCHANGED <<queues, unacked, workers, replyQ, callers, hist, ops, pk,
                 conn, cons, net>>

\* x.wait() on a timer returns when its loop has ended.
Ended(service, t) == t \notin service.running \cup service.winding

\* The loop of Service.wait has nothing left to block on: x.wait() returns
\* or raises at once for every timer of the list, and what it raises is
\* passed over.
Waited(service, timers) ==
  \A i \in DOMAIN timers :
    timers[i] \in service.broken \/ Ended(service, timers[i])

\* Service.wait is called: the loop is over the list self.timers is then,
\* and it returns without blocking when no timer of the list holds it.
wait(host) ==
  /\ svc[host].wait_pc = "idle"
  /\ svc' = [svc EXCEPT ![host].wait_pc =
                          IF Waited(svc[host], svc[host].timers)
                          THEN "returned" ELSE "waiting",
                        ![host].waits = svc[host].timers]
  /\ UNCHANGED <<queues, unacked, workers, replyQ, callers, hist, ops, pk,
                 conn, cons, net>>

\* Service.wait returns, having blocked: the last timer of its list that
\* held it has ended.
wait_return(host) ==
  /\ svc[host].wait_pc = "waiting"
  /\ Waited(svc[host], svc[host].waits)
  /\ svc' = [svc EXCEPT ![host].wait_pc = "returned"]
  /\ UNCHANGED <<queues, unacked, workers, replyQ, callers, hist, ops, pk,
                 conn, cons, net>>

\* The pulse timer fires Service.report_state.
report_state(host) ==
  /\ "pulse" \in svc[host].running
  /\ svc[host].fired < MaxFires
  /\ svc' = [svc EXCEPT ![host].fired = @ + 1]
  /\ UNCHANGED <<queues, unacked, workers, replyQ, callers, hist, ops, pk,
                 conn, cons, net>>

\* The periodic timer fires Service.periodic_tasks.
periodic_tasks(host) ==
  /\ "periodic" \in svc[host].running
  /\ svc[host].fired < MaxFires
  /\ svc' = [svc EXCEPT ![host].fired = @ + 1]
  /\ UNCHANGED <<queues, unacked, workers, replyQ, callers, hist, ops, pk,
                 conn, cons, net>>

ServiceMsgs == { Request("echo", StrValue("hi")) }

Lifecycle ==
  \/ \E host \in Hosts : start(host)
  \/ \E host \in Hosts : stop(host)
  \/ \E host \in Hosts : report_state(host)
  \/ \E host \in Hosts : periodic_tasks(host)
  \/ \E msg \in ServiceMsgs, topic \in ClientTopics :
       cast(ClientContext, topic, msg)

\* Services started and stopped while messages arrive.
SpecService == InitService /\ [][Lifecycle \/ Consume]_vars

\* The intervals a Service is constructed with: the constructor's default,
\* or what Service.create fills in.
ReportIntervals == {NoInterval, report_interval_flag}
PeriodicIntervals == {NoInterval, periodic_interval_flag}

\* Services constructed directly, Service(host, binary, topic, manager, ...),
\* or by Service.create; not started.
InitConstructed ==
  /\ queues = [q \in Queues |-> << >>]
  /\ unacked = {}
  /\ workers = {}
  /\ replyQ = << >>
  /\ callers = << >>
  /\ hist = << >>
  /\ ops = 0
  /\ pk = PkIdle
  /\ \E r \in [Hosts -> ReportIntervals], p \in [Hosts -> PeriodicIntervals] :
       svc = [host \in Hosts |->
                Service(host, EchoBinary, ServiceTopic, r[host], p[host])]
  /\ conn = ConnectionClass
  /\ cons = << >>
  /\ net = NetUp

\* Services constructed either way, started and stopped while messages
\* arrive.
SpecConstructed == InitConstructed /\ [][Lifecycle \/ Consume]_vars

\* The timers of a service whose stop() and wait() raise.
BrokenTimers ==
  { {}, {"consumer_all"}, {"consumer_node", "pulse"}, {"periodic"} }

\* The service whose shutdown is followed, the first: the timers of one
\* service are nothing to another.
ShutdownHosts == {host \in Hosts : \A other \in Hosts : host <= other}

\* Services made by Service.create, not started; some of the timers start
\* will make for the one followed are broken.
InitShutdown ==
  /\ queues = [q \in Queues |-> << >>]
  /\ unacked = {}
  /\ workers = {}
  /\ replyQ = << >>
  /\ callers = << >>
  /\ hist = << >>
  /\ ops = 0
  /\ pk = PkIdle
  /\ \E broken \in BrokenTimers :
       svc = [host \in Hosts |->
                IF host \in ShutdownHosts
                THEN [create(host, EchoBinary, None) EXCEPT !.broken = broken]
                ELSE create(host, EchoBinary, None)]
  /\ conn = ConnectionClass
  /\ cons = << >>
  /\ net = NetUp

Shutdown ==
  \/ \E host \in ShutdownHosts : start(host)
  \/ \E host \in ShutdownHosts : stop(host)
  \/ \E host \in ShutdownHosts : kill(host)
  \/ \E host \in ShutdownHosts : wait(host)
  \/ \E host \in ShutdownHosts : wait_return(host)
  \/ \E host \in ShutdownHosts : loop_exit(host)
  \/ \E host \in ShutdownHosts : report_state(host)
  \/ \E host \in ShutdownHosts : periodic_tasks(host)

\* Services started, stopped and waited for, in any order.
SpecShutdown == InitShutdown /\ [][Shutdown]_vars

\* -------------------------------------------------- consumer construction

\* The values of FLAGS.rabbit_max_retries tried, and what the broker answers
\* to each connection attempt: TRUE when the parent constructor succeeds.
RetryFlags == 1 .. MaxRetries

RECURSIVE Answers(_)
Answers(n) ==
  IF n = 0 THEN {<< >>}
  ELSE {Append(a, ok) : a \in Answers(n - 1), ok \in BOOLEAN}

\* A consumer entering Consumer.__init__: no attempt made, the attribute
\* failed_connection not there yet.
Constructing(rabbit_max_retries, answers) ==
  [state |-> "loop", rabbit_max_retries |-> rabbit_max_retries,
   answers |-> answers, i |-> 0, tried |-> << >>, sleeps |-> 0,
   failed_connection |-> None]

\* The consumer whose construction is followed.
FirstConsumer ==
  [host |-> 1, exchange |-> ControlExchange, queue |-> TopicName(ServiceTopic)]

InitConnect ==
  /\ queues = [q \in Queues |-> << >>]
  /\ unacked = {}
  /\ workers = {}
  /\ replyQ = << >>
  /\ callers = << >>
  /\ hist = << >>
  /\ ops = 0
  /\ pk = PkIdle
  /\ svc = [host \in Hosts |-> create(host, EchoBinary, None)]
  /\ conn = ConnectionClass
  /\ \E r \in RetryFlags, answers \in Answers(MaxRetries) :
       cons = (FirstConsumer :> Constructing(r, answers))
  /\ net = NetUp

\* The loop never leaving at a success (a mutant).
Consumer_init_attempt_no_break(c) ==
  LET k == cons[c]
      ok == k.answers[k.i + 1]
      last == k.i + 1 = k.rabbit_max_retries
  IN /\ k.state = "loop"
     /\ cons' = [cons EXCEPT ![c] =
          [k EXCEPT !.i = @ + 1,
                    !.sleeps = IF k.i > 0 THEN @ + 1 ELSE @,
                    !.tried = Append(@, ok),
                    !.failed_connection = ~ok,
                    !.state = IF last THEN "after_loop" ELSE "loop"]]
     /\ UNCHANGED <<queues, unacked, workers, replyQ, callers, hist, ops, pk,
                    svc, conn, net>>

\* One pass of the loop of Consumer.__init__: the sleep when it is not the
\* first, the parent constructor, and the flag set by its outcome; a success
\* leaves the loop.
Consumer_init_attempt(c) ==
  LET k == cons[c]
      ok == k.answers[k.i + 1]
      last == k.i + 1 = k.rabbit_max_retries
  IN /\ k.state = "loop"
     /\ cons' = [cons EXCEPT ![c] =
          [k EXCEPT !.i = @ + 1,
                    !.sleeps = IF k.i > 0 THEN @ + 1 ELSE @,
                    !.tried = Append(@, ok),
                    !.failed_connection = ~ok,
                    !.state = IF ok \/ last THEN "after_loop" ELSE "loop"]]
     /\ UNCHANGED <<queues, unacked, workers, replyQ, callers, hist, ops, pk,
                    svc, conn, net>>

\* After the loop: sys.exit(1) when the flag is set, else the constructor
\* returns.
Consumer_init_end(c) ==
  LET k == cons[c]
  IN /\ k.state = "after_loop"
     /\ cons' = [cons EXCEPT ![c].state =
          IF k.failed_connection THEN "exit(1)" ELSE "constructed"]
     /\ UNCHANGED <<queues, unacked, workers, replyQ, callers, hist, ops, pk,
                    svc, conn, net>>

NextConnect ==
  \/ \E c \in DOMAIN cons : Consumer_init_attempt(c)
  \/ \E c \in DOMAIN cons : Consumer_init_end(c)

SpecConnect == InitConnect /\ [][NextConnect]_vars

\* ------------------------------------------------------- broker outages

\* One service running: its three consumers connected.
InitFetch ==
  /\ queues = [q \in Queues |-> << >>]
  /\ unacked = {}
  /\ workers = {}
  /\ replyQ = << >>
  /\ callers = << >>
  /\ hist = << >>
  /\ ops = 0
  /\ pk = PkIdle
  /\ svc = [host \in Hosts |->
              IF host = 1 THEN started(create(host, EchoBinary, None))
              ELSE create(host, EchoBinary, None)]
  /\ conn = [ConnectionClass EXCEPT !.made = 3]
  /\ cons = [c \in ServiceConsumers(1) |-> StartedInOrder(c)]
  /\ net = NetUp

\* The broker goes away: every channel to it is dead from then on.
Drop ==
  /\ net.up
  /\ net.drops < MaxDrops
  /\ net' = [up |-> FALSE, drops |-> net.drops + 1, outage_fetches |-> 0]
  /\ cons' = [c \in DOMAIN cons |-> [cons[c] EXCEPT !.link = FALSE]]
  /\ UNCHANGED <<queues, unacked, workers, replyQ, callers, hist, ops, pk,
                 svc, conn>>

\* The broker is reachable again; the channels opened before stay dead.
Restore ==
  /\ ~net.up
  /\ net' = [net EXCEPT !.up = TRUE]
  /\ UNCHANGED <<queues, unacked, workers, replyQ, callers, hist, ops, pk,
                 svc, conn, cons>>

Outages ==
  \/ Drop
  \/ Restore
  \/ \E u \in unacked : Redeliver(u)
  \/ \E msg \in ServiceMsgs, topic \in ClientTopics :
       cast(ClientContext, topic, msg)

\* A running service through outages of the broker.
SpecFetch == InitFetch /\ [][Outages \/ Consume]_vars

\* The same with the fetch timers firing and the greenthreads running, the
\* broker coming back after it went away and giving back what was unacked.
SpecFetchLive ==
  /\ InitFetch
  /\ [][Outages \/ Consume]_vars
  /\ WF_vars(Consume)
  /\ WF_vars(Restore)
  /\ WF_vars(\E u \in unacked : Redeliver(u))

\* Services made by Service.create, not started: InitService with the one
\* binary.
InitCreated ==
  /\ queues = [q \in Queues |-> << >>]
  /\ unacked = {}
  /\ workers = {}
  /\ replyQ = << >>
  /\ callers = << >>
  /\ hist = << >>
  /\ ops = 0
  /\ pk = PkIdle
  /\ svc = [host \in Hosts |-> create(host, EchoBinary, None)]
  /\ conn = ConnectionClass
  /\ cons = << >>
  /\ net = NetUp

\* The steps that make and replace connections: start, and the fetches of
\* the consumers' timers through an outage.
Reconnects ==
  \/ \E host \in Hosts : start(host)
  \/ Drop
  \/ Restore
  \/ \E c \in DOMAIN cons : fetch(c)

\* Services started in any order and run through outages of the broker, no
\* message arriving.
SpecReconnect == InitCreated /\ [][Reconnects]_vars

\* One-way messages to a handler that returns and one that raises.
OneWayMsgs == { Request("echo", StrValue("hi")), Request("fail", StrValue("boom")) }

OneWays ==
  \/ \E msg \in OneWayMsgs, topic \in ClientTopics :
       cast(ClientContext, topic, msg)
  \/ \E msg \in OneWayMsgs : fanout_cast(ClientContext, ServiceTopic, msg)
  \/ Drop

\* cast and fanout_cast to a running service, the broker there and then
\* away.
SpecOneWay == InitFetch /\ [][OneWays \/ Consume]_vars

\* Calls of a method that returns and of one that raises.
WaitMsgs == { Request("echo", StrValue("hi")), Request("fail", StrValue("boom")) }

WaitingCalls ==
  \/ \E msg \in WaitMsgs, topic \in ClientTopics :
       call(ClientContext, topic, msg)
  \/ \E mid \in DOMAIN callers : call_return(mid)
  \/ \E mid \in DOMAIN callers : call_wait_ends(mid)
  \/ Drop

\* Calls to a running service, the broker going away while they wait.
SpecCallOutage == InitFetch /\ [][WaitingCalls \/ Consume]_vars

\* ------------------------------------------------- the consumer's GreenPool

\* FLAGS.rpc_thread_pool_size, as small as makes a pool fill up.
rpc_thread_pool_size == 1

\* The greenthreads of c.pool: every _receive spawned and not yet ended.
InPool(c) == {w \in workers : w.consumer = c /\ w.pc # "blocked"}

\* The receive of c that is inside pool.spawn_n, waiting for a slot.
Submitting(c) == {w \in workers : w.consumer = c /\ w.pc = "blocked"}

\* self.pool.spawn_n(self._receive, ...): GreenPool.spawn_n takes a slot of
\* the pool's semaphore before it makes the greenthread, and its caller
\* waits there while every slot is taken.
spawn_n(c) ==
  IF Cardinality(InPool(c)) < rpc_thread_pool_size THEN "spawned"
  ELSE "blocked"

\* Consumer.fetch on a sound channel with a message waiting: the message is
\* handed to AdapterConsumer.receive, in the greenthread of the fetch timer.
\* That greenthread makes no other fetch while it is inside spawn_n.
fetch_pooled(c) ==
  /\ TimerOf(c) \in svc[c.host].running
  /\ net.up /\ ~cons[c].failed_connection
  /\ Submitting(c) = {}
  /\ queues[c.queue] # << >>
  /\ LET message == Head(queues[c.queue])
         copy == Copy(message.mid, c.queue)
     IN /\ queues' = [queues EXCEPT ![c.queue] = Tail(@)]
        /\ unacked' = unacked \cup {[queue |-> c.queue, message |-> message]}
        /\ workers' = workers \cup
             {[consumer |-> c, mid |-> message.mid, channel |-> net.drops,
               message_data |-> message.data, pc |-> spawn_n(c)]}
        /\ hist' = [hist EXCEPT ![copy].fetches = @ + 1]
  /\ UNCHANGED <<replyQ, callers, ops, pk, svc, conn, cons, net>>

\* spawn_n returns once a greenthread of the pool has ended: _receive is
\* spawned and the fetch timer's greenthread goes on.
spawn_n_returns(w) ==
  /\ w.pc = "blocked"
  /\ Cardinality(InPool(w.consumer)) < rpc_thread_pool_size
  /\ Moved(w, [w EXCEPT !.pc = "spawned"])
  /\ UNCHANGED <<queues, unacked, replyQ, callers, hist, ops, pk, svc, conn,
                 cons, net>>

PoolTopics ==
  {TopicName(ServiceTopic)} \cup {HostTopicName(ServiceTopic, host) : host \in Hosts}

Pooled ==
  \/ \E msg \in WaitMsgs, topic \in PoolTopics :
       cast(ClientContext, topic, msg)
  \/ \E c \in DOMAIN cons : fetch_pooled(c)
  \/ \E w \in workers : spawn_n_returns(w)
  \/ \E w \in workers : _receive_ack(w)
  \/ \E w \in workers : _receive_dispatch(w)
  \/ \E w \in workers : _receive_handler(w)

\* Casts to services whose consumers dispatch on pools of
\* rpc_thread_pool_size greenthreads.
SpecPool == Init /\ [][Pooled]_vars

\* ------------------------------------------- greenthreads under the hub

\* message.ack() moved behind the handler call (a mutant).
ack_point_after_handler == "after handler"

\* Where _receive acks: after the context is unpacked and before the method
\* is looked up and called.
ack_point == "before handler"

\* The place of a new greenthread in the hub's run queue.
RunQueueEnd ==
  IF workers = {} THEN 1
  ELSE 1 + (CHOOSE n \in {w.arrival : w \in workers} :
              \A w \in workers : w.arrival <= n)

\* Consumer.fetch on a sound channel with a message waiting, the pool not
\* full: receive spawns _receive, which the hub will run after the
\* greenthreads spawned before it.
fetch_spawn(c) ==
  /\ TimerOf(c) \in svc[c.host].running
  /\ net.up /\ ~cons[c].failed_connection
  /\ queues[c.queue] # << >>
  /\ LET message == Head(queues[c.queue])
         copy == Copy(message.mid, c.queue)
     IN /\ queues' = [queues EXCEPT ![c.queue] = Tail(@)]
        /\ unacked' = unacked \cup {[queue |-> c.queue, message |-> message]}
        /\ workers' = workers \cup
             {[consumer |-> c, mid |-> message.mid, channel |-> net.drops,
               message_data |-> message.data, pc |-> "spawned",
               arrival |-> RunQueueEnd]}
        /\ hist' = [hist EXCEPT ![copy].fetches = @ + 1]
  /\ UNCHANGED <<replyQ, callers, ops, pk, svc, conn, cons, net>>

\* The hub switches to the greenthread at the head of the run queue of its
\* process, and _receive runs without a suspension point from its start to
\* message.ack().
hub_switch(w) ==
  LET msg_id == Get(w.message_data, Key("_msg_id"), NoMsgId)
      data == Restrict(w.message_data,
                       DOMAIN w.message_data \ {Key("_msg_id")})
      ctxt == _unpack_context(data)
  IN /\ w.pc = "spawned"
     /\ \A v \in workers :
          (v.pc = "spawned" /\ v.consumer.host = w.consumer.host) =>
            w.arrival <= v.arrival
     /\ IF ctxt.ok
        THEN /\ Moved(w, [consumer |-> w.consumer, mid |-> w.mid,
                          channel |-> w.channel,
                          message_data |-> popped(data), msg_id |-> msg_id,
                          ctxt |-> ctxt.ctx, pc |-> "acked",
                          arrival |-> w.arrival])
             /\ IF ack_point = "before handler"
                THEN /\ unacked' = unacked \ Acked(w)
                     /\ hist' = [hist EXCEPT ![CopyOf(w)].acks = @ + 1]
                ELSE UNCHANGED <<unacked, hist>>
        ELSE /\ Finished(w)
             /\ hist' = [hist EXCEPT ![CopyOf(w)].runs = @ + 1]
             /\ UNCHANGED unacked
     /\ UNCHANGED <<queues, replyQ, callers, ops, pk, svc, conn, cons, net>>

\* The handler method, which may suspend, returns or raises, and _receive
\* replies and ends.
handler_ends(w) ==
  /\ w.pc = "running"
  /\ \E outcome \in Handler(method_of(w.message_data), w.ctxt,
                            args_of(w.message_data)) :
       LET sent == Replies(w.msg_id, outcome)
       IN /\ Finished(w)
          /\ replyQ' = Routed(replyQ, sent)
          /\ hist' = [hist EXCEPT ![CopyOf(w)].outcome = outcome,
                                  ![CopyOf(w)].replies = @ \o sent,
                                  ![CopyOf(w)].runs = @ + 1,
                                  ![CopyOf(w)].acks =
                                    IF ack_point = "before handler" THEN @
                                    ELSE @ + 1]
          /\ unacked' = IF ack_point = "before handler" THEN unacked
                        ELSE unacked \ Acked(w)
  /\ UNCHANGED <<queues, callers, ops, pk, svc, conn, cons, net>>

Hub ==
  \/ \E msg \in WaitMsgs \cup {NoMethodMsg}, topic \in PoolTopics :
       cast(ClientContext, topic, msg)
  \/ \E c \in DOMAIN cons : fetch_spawn(c)
  \/ \E w \in workers : hub_switch(w)
  \/ \E w \in workers : _receive_dispatch(w)
  \/ \E w \in workers : handler_ends(w)

\* Casts dispatched by greenthreads that run from one suspension point to
\* the next.
SpecHub == Init /\ [][Hub]_vars

\* ------------------------------------------- casts to a topic and to a host

Addressed ==
  \/ \E msg \in WaitMsgs, topic \in PoolTopics :
       cast(ClientContext, topic, msg)
  \/ \E c \in DOMAIN cons : fetch(c)
  \/ \E w \in workers : _receive_ack(w)
  \/ \E w \in workers : _receive_dispatch(w)
  \/ \E w \in workers : _receive_handler(w)

\* Casts to the shared topic and to the topic of one host, with the service
\* running on every host.
SpecAddressed == Init /\ [][Addressed]_vars

\* --------------------------------------------- a msg mapping used twice

\* The mapping a caller passed to call, as call left it: msg.update and
\* _pack_context wrote _msg_id and the _context_ keys into it in place, so
\* it is the envelope that was published.
MsgAfterCall(mid) == {hist[copy].data : copy \in CopiesOf(mid)}

\* The mappings a caller may pass to cast or fanout_cast: fresh ones, and
\* the one an earlier call of its own was given.
ReuseMsgs ==
  {Request("echo", StrValue("hi")), NoMethodMsg} \cup
  UNION {MsgAfterCall(mid) : mid \in {m \in DOMAIN callers :
                                        callers[m].verb = "call"}}

Reuse ==
  \/ \E topic \in ClientTopics :
       call(ClientContext, topic, Request("echo", StrValue("hi")))
  \/ \E mid \in DOMAIN callers : call_return(mid)
  \/ \E msg \in ReuseMsgs, topic \in ClientTopics :
       cast(ClientContext, topic, msg)
  \/ \E msg \in ReuseMsgs : fanout_cast(ClientContext, ServiceTopic, msg)

\* Calls and casts by a caller that uses its msg mappings again.
SpecReuse == Init /\ [][Reuse \/ Consume]_vars

\* ------------------------------------------- replies over a failing transport

\* How the transport serves one msg_reply: both publisher.send and
\* publisher.close go through, or send raises with nothing published, or
\* the message is published and close raises.
Transports == {"ok", "send raises", "close raises"}

IOError == Raised("IOError", StrValue("Socket closed"))

\* msg_reply(msg_id, reply, failure) over such a transport.
msg_reply_over(msg_id, reply, failure, transport) ==
  LET r == msg_reply(msg_id, reply, failure)
  IN IF r.raised \/ transport = "ok" THEN r
     ELSE IF transport = "send raises" THEN [sent |-> << >>, raised |-> TRUE]
     ELSE [sent |-> r.sent, raised |-> TRUE]

\* What the try / except around the handler call publishes over transports
\* first and second: msg_reply(msg_id, rval, None) is inside the try, so
\* whatever it raises is answered by msg_reply(msg_id, None, sys.exc_info()).
RepliesOver(msg_id, outcome, first, second) ==
  IF msg_id = NoMsgId THEN << >>
  ELSE IF outcome.kind = "return"
  THEN LET r == msg_reply_over(msg_id, outcome.value, NoExcInfo, first)
       IN IF r.raised
          THEN r.sent \o msg_reply_over(msg_id, Null, IOError, second).sent
          ELSE r.sent
  ELSE msg_reply_over(msg_id, Null, outcome, first).sent

\* The handler method returns or raises, and _receive replies over a
\* transport that may fail.
_receive_handler_over(w) ==
  /\ w.pc = "running"
  /\ \E outcome \in Handler(method_of(w.message_data), w.ctxt,
                            args_of(w.message_data)),
        first \in Transports, second \in Transports :
       LET sent == RepliesOver(w.msg_id, outcome, first, second)
       IN /\ Finished(w)
          /\ replyQ' = Routed(replyQ, sent)
          /\ hist' = [hist EXCEPT ![CopyOf(w)].outcome = outcome,
                                  ![CopyOf(w)].replies = @ \o sent,
                                  ![CopyOf(w)].runs = @ + 1]
  /\ UNCHANGED <<queues, unacked, callers, ops, pk, svc, conn, cons, net>>

ConsumeOver ==
  \/ \E c \in DOMAIN cons : fetch(c)
  \/ \E w \in workers : _receive_ack(w)
  \/ \E w \in workers : _receive_dispatch(w)
  \/ \E w \in workers : _receive_handler_over(w)

CallsOver ==
  \/ \E msg \in WaitMsgs \cup {Request("work", v) : v \in WorkValues},
        topic \in ClientTopics :
       call(ClientContext, topic, msg)
  \/ \E mid \in DOMAIN callers : call_return(mid)

\* Calls answered over a transport that may fail while a reply is sent.
SpecReplyTransport == Init /\ [][CallsOver \/ ConsumeOver]_vars

\* ------------------------------------------------ call, statement by statement

\* The request published before the reply consumer is made (a mutant).
call_order_publisher_first == <<"publisher.send", "publisher.close", "consumer">>

\* The order of call's statements before consumer.wait: the DirectConsumer
\* is made and the callback registered, then the TopicPublisher is made and
\* sends, then it is closed.
call_order == <<"consumer", "publisher.send", "publisher.close">>

\* call, up to the first of the two blocks: the reply id is made, written
\* into the message, and the context packed.
call_begin(context, topic, msg) ==
  LET msg_id == NewMsgId
      data == _pack_context((Key("_msg_id") :> msg_id) @@ msg, context)
  IN /\ ops < MaxMsgs
     /\ ops' = ops + 1
     /\ callers' = ((ops + 1) :> [verb |-> "call", msg_id |-> msg_id,
                                  state |-> "started", pc |-> 1,
                                  topic |-> topic, data |-> data,
                                  publisher |-> "none"]) @@ callers
     /\ UNCHANGED <<queues, unacked, workers, replyQ, hist, pk, svc, conn,
                    cons, net>>

\* The call that did not close its consumer (a mutant).
close_skipped(declared, msg_id) == declared

\* consumer.close() on the DirectConsumer of msg_id: its queue is
\* auto-delete and goes with it.
close(declared, msg_id) == Restrict(declared, DOMAIN declared \ {msg_id})

\* The next statement of a call that has begun.  Constructing the
\* DirectConsumer declares the queue msg_id on the direct exchange msg_id;
\* after the last statement the call is at consumer.wait.
call_step(mid) ==
  LET caller == callers[mid]
      block == call_order[caller.pc]
      publisher == CASE block = "publisher.send" -> "open"
                     [] block = "publisher.close" -> "closed"
                     [] OTHER -> caller.publisher
  IN /\ caller.verb = "call"
     /\ caller.state = "started"
     /\ CASE block = "consumer" ->
               /\ replyQ' = (caller.msg_id :> << >>) @@ replyQ
               /\ UNCHANGED <<queues, hist>>
          [] block = "publisher.send" ->
               /\ Publish(ControlExchange, caller.topic, mid, caller.data)
               /\ UNCHANGED replyQ
          [] OTHER -> UNCHANGED <<queues, hist, replyQ>>
     /\ callers' = [callers EXCEPT ![mid] =
          IF caller.pc = Len(call_order)
          THEN [verb |-> "call", msg_id |-> caller.msg_id,
                state |-> "waiting", publisher |-> publisher]
          ELSE [caller EXCEPT !.pc = caller.pc + 1,
                              !.publisher = publisher]]
     /\ UNCHANGED <<unacked, workers, ops, pk, svc, conn, cons, net>>

\* call, from the reply's arrival: WaitMessage acks it and keeps the result
\* or the RemoteError, wait(limit=1) ends, consumer.close() is called and
\* the result is returned or raised.
call_end(mid) ==
  LET caller == callers[mid]
      data == Head(replyQ[caller.msg_id])
      failure == data.failure
  IN /\ caller.verb = "call"
     /\ caller.state = "waiting"
     /\ replyQ[caller.msg_id] # << >>
     /\ callers' = [callers EXCEPT ![mid] =
          IF failure # NoFailure
          THEN [verb |-> "call", msg_id |-> caller.msg_id,
                state |-> "raised", publisher |-> caller.publisher,
                result |-> RemoteError(failure[1], failure[2], failure[3])]
          ELSE [verb |-> "call", msg_id |-> caller.msg_id,
                state |-> "returned", publisher |-> caller.publisher,
                result |-> data.result]]
     /\ replyQ' = close(replyQ, caller.msg_id)
     /\ UNCHANGED <<queues, unacked, workers, hist, ops, pk, svc, conn, cons, net>>

CallSteps ==
  \/ \E msg \in WaitMsgs, topic \in ClientTopics :
       call_begin(ClientContext, topic, msg)
  \/ \E mid \in DOMAIN callers : call_step(mid)
  \/ \E mid \in DOMAIN callers : call_end(mid)

\* Calls running block by block while the service consumes.
SpecCallSteps == Init /\ [][CallSteps \/ Consume]_vars

\* ------------------------------------------------- the Connection class

\* A classmethod call made by a client, kept in conn.calls: what was
\* memoized before, the connection returned, what is memoized after.
Called(op, r) ==
  [r.cls EXCEPT !.calls =
     Append(@, [op |-> op, before |-> conn._instance, result |-> r.result,
                after |-> r.cls._instance])]

Connection_instance(new) ==
  /\ Len(conn.calls) < MaxCalls
  /\ conn' = Called(IF new THEN "instance(new=True)"
                    ELSE "instance(new=False)", instance(conn, new))
  /\ UNCHANGED <<queues, unacked, workers, replyQ, callers, hist, ops, pk,
                 svc, cons, net>>

Connection_recreate ==
  /\ Len(conn.calls) < MaxCalls
  /\ conn' = Called("recreate", recreate(conn))
  /\ UNCHANGED <<queues, unacked, workers, replyQ, callers, hist, ops, pk,
                 svc, cons, net>>

NextConnection ==
  \/ \E new \in BOOLEAN : Connection_instance(new)
  \/ Connection_recreate

\* The classmethods of Connection called in any order, from the class as it
\* is at import.
SpecConnection == InitService /\ [][NextConnection]_vars

\* ================================================================ claims

MsgIdOf(data) == Get(data, Key("_msg_id"), NoMsgId)
Contains(text, piece) == \E i \in DOMAIN text : text[i] = piece
ReplyTo(msg_id, result, failure) ==
  [exchange |-> msg_id, body |-> [result |-> result, failure |-> failure]]

\* C1: whenever a handler method is running or has run for an envelope, the
\* envelope's message has been acked, exactly once: the ack comes before the
\* handler is invoked, never after it.
C1_AckedBeforeHandler ==
  /\ \A w \in workers : w.pc = "running" => hist[CopyOf(w)].acks = 1
  /\ \A copy \in DOMAIN hist :
       hist[copy].by # << >> => hist[copy].acks = 1

C1_Witness ==
  \E w \in workers :
    w.pc = "running" /\ hist[CopyOf(w)].by # << >> /\ hist[CopyOf(w)].acks = 1

\* C2: every envelope handed to an AdapterConsumer is acked exactly once,
\* whatever it contains: never twice, and once by the time _receive has
\* ended for it.
C2_EveryEnvelopeAckedOnce ==
  \A copy \in DOMAIN hist :
    /\ hist[copy].acks <= 1
    /\ hist[copy].runs > 0 => hist[copy].acks = 1

\* C3: a message delivered to an AdapterConsumer causes at most one
\* invocation of a handler method, also when the handler raised and when
\* the broker delivers the message again.
C3_AtMostOneInvocation ==
  \A copy \in DOMAIN hist : Len(hist[copy].by) <= 1

C3_Witness ==
  \E copy \in DOMAIN hist :
    /\ hist[copy].outcome.kind = "raise"
    /\ hist[copy].runs = 1
    /\ Len(hist[copy].by) = 1
    /\ \A w \in workers : CopyOf(w) # copy

\* The value a reply carries for a handler's return value: its JSON round
\* trip, or the mapping of its fields' reprs when JSON cannot hold it (the
\* value itself when it has no fields either).
Carried(value) ==
  IF Serializable(value) THEN JsonRoundTrip(value)
  ELSE IF HasDict(value) THEN ReprFields(value)
  ELSE value

\* C4: for every envelope whose handler was invoked and has ended, the
\* success reply {result: the handler's value, failure: null} is what was
\* published, on the exchange _msg_id, if and only if _msg_id is set and the
\* handler returned; with no _msg_id nothing was published, and for a handler
\* that raised no reply without a failure.  (The handler's value is taken as
\* a reply carries it.)
C4_SuccessReplyIffReturned ==
  \A copy \in DOMAIN hist :
    LET h == hist[copy]
        msg_id == MsgIdOf(h.data)
    IN (h.by # << >> /\ h.runs > 0) =>
         /\ msg_id = NoMsgId => h.replies = << >>
         /\ h.outcome.kind = "raise" =>
              \A i \in DOMAIN h.replies : h.replies[i].body.failure # NoFailure
         /\ (h.outcome.kind = "return" /\ msg_id # NoMsgId) =>
              h.replies =
                <<ReplyTo(msg_id, Carried(h.outcome.value), NoFailure)>>

\* C5, as claimed: the value a call returns is the value the handler
\* returned for the call's envelope.
C5_ReturnsHandlerValue ==
  \A mid \in DOMAIN callers :
    (callers[mid].verb = "call" /\ callers[mid].state = "returned") =>
      \E copy \in CopiesOf(mid) :
        /\ hist[copy].outcome.kind = "return"
        /\ callers[mid].result = hist[copy].outcome.value

\* C5, amended: a call that returns either had an envelope with no method,
\* no handler ran and the value is the "No method" text; or its handler
\* returned, and the value is the handler's as the reply carries it: its
\* JSON round trip when JSON can hold it, else the mapping of its fields to
\* their reprs.
C5_ReturnsCarriedValue ==
  \A mid \in DOMAIN callers :
    (callers[mid].verb = "call" /\ callers[mid].state = "returned") =>
      \E copy \in CopiesOf(mid) :
        IF NoMethod(method_of(hist[copy].data))
        THEN /\ hist[copy].by = << >>
             /\ callers[mid].result = NoMethodText
        ELSE /\ hist[copy].outcome.kind = "return"
             /\ callers[mid].result = Carried(hist[copy].outcome.value)

C5_Witness ==
  \E mid \in DOMAIN callers :
    /\ callers[mid].verb = "call" /\ callers[mid].state = "returned"
    /\ \E copy \in CopiesOf(mid) :
         /\ hist[copy].outcome.kind = "return"
         /\ hist[copy].outcome.value = StrValue("hi")
         /\ callers[mid].result = StrValue("hi")

\* C6: when the handler of an envelope with a _msg_id raises X(msg), the one
\* reply published is {result: null, failure: (X, str(msg), traceback)} on
\* the exchange _msg_id, and the call returns no value: it raises a
\* RemoteError whose message contains X and msg.
C6_RaiseBecomesRemoteError ==
  \A copy \in DOMAIN hist :
    LET h == hist[copy]
        msg_id == MsgIdOf(h.data)
    IN (h.outcome.kind = "raise" /\ msg_id # NoMsgId) =>
         /\ h.replies =
              <<ReplyTo(msg_id, Null,
                        <<h.outcome.exc_type, h.outcome.value, Traceback>>)>>
         /\ (copy.mid \in DOMAIN callers /\ callers[copy.mid].verb = "call") =>
              /\ callers[copy.mid].state \in {"waiting", "raised"}
              /\ callers[copy.mid].state = "raised" =>
                   /\ Contains(callers[copy.mid].result.message,
                               h.outcome.exc_type)
                   /\ Contains(callers[copy.mid].result.message,
                               h.outcome.value)

C6_Witness ==
  \E mid \in DOMAIN callers :
    /\ callers[mid].verb = "call" /\ callers[mid].state = "raised"
    /\ \E copy \in CopiesOf(mid) :
         /\ hist[copy].outcome = Raised("Exception", StrValue("boom"))
         /\ Contains(callers[mid].result.message, "Exception")
         /\ Contains(callers[mid].result.message, "boom")

\* The replies sent on an exchange that a msg_id names.
OnExchange(replies) == SelectSeq(replies, LAMBDA r : r.exchange # NoMsgId)

\* C7: for an envelope with a missing or empty method, once _receive has
\* ended, no handler was invoked, and the "No method" reply was published on
\* the exchange _msg_id if _msg_id is set and nothing on any exchange if not.
C7_NoMethodReplyIffMsgId ==
  \A copy \in DOMAIN hist :
    LET h == hist[copy]
        msg_id == MsgIdOf(h.data)
    IN (NoMethod(method_of(h.data)) /\ h.runs > 0) =>
         /\ h.by = << >>
         /\ OnExchange(h.replies) =
              IF msg_id # NoMsgId
              THEN <<ReplyTo(msg_id, NoMethodText, NoFailure)>>
              ELSE << >>

\* C8: for an envelope whose method the handler object does not have, once
\* _receive has ended, no handler was invoked and, if _msg_id is set, an
\* error reply was published.
C8_UnknownMethodRejected ==
  \A copy \in DOMAIN hist :
    LET h == hist[copy]
        method == method_of(h.data)
    IN (~NoMethod(method) /\ ~HasMethod(method) /\ h.runs > 0) =>
         /\ h.by = << >>
         /\ MsgIdOf(h.data) # NoMsgId => h.replies # << >>

\* C9: unpack(pack(msg, ctx)), for msg without _context_ keys, leaves msg
\* with its own keys and values and none that begins with _context_, and
\* gives a context equal to ctx in tenant, user, groups, remote_address and
\* request_id, and in timestamp up to the ISO-8601 round trip.
C9_UnpackInvertsPack ==
  pk.pc = "unpacked" =>
    /\ pk.residual = pk.msg
    /\ context_keys(pk.residual) = {}
    /\ pk.out.ok
    /\ pk.out.ctx.tenant = pk.ctx.tenant
    /\ pk.out.ctx.user = pk.ctx.user
    /\ pk.out.ctx.groups = pk.ctx.groups
    /\ pk.out.ctx.remote_address = pk.ctx.remote_address
    /\ pk.out.ctx.request_id = pk.ctx.request_id
    /\ pk.out.ctx.timestamp = parse_isotime(isotime(pk.ctx.timestamp))

C9_Witness ==
  /\ pk.pc = "unpacked"
  /\ DOMAIN pk.msg # {}
  /\ pk.ctx.timestamp.usec # 0
  /\ pk.out.ctx.timestamp # pk.ctx.timestamp
  /\ pk.out.ctx.request_id = pk.ctx.request_id

FanoutCopies(mid) ==
  {copy \in DOMAIN hist : copy.mid = mid /\ copy.queue.x = "fanout"}

\* A copy is pending while it waits in its queue or a greenthread has it.
Pending(copy) ==
  \/ \E i \in DOMAIN queues[copy.queue] : queues[copy.queue][i].mid = copy.mid
  \/ \E w \in workers : CopyOf(w) = copy

\* The handler invocations for message mid in the service on host.
InvocationsBy(mid, host) ==
  Cardinality({p \in UNION {{<<copy, i>> : i \in DOMAIN hist[copy].by} :
                              copy \in FanoutCopies(mid)} :
                 hist[p[1]].by[p[2]] = host})

\* C10: a fanout_cast on the topic, with NumServices services subscribed,
\* invokes the handler of no service twice and, once no copy of the message
\* is pending, has invoked the handler of every service exactly once.
C10_FanoutReachesEverySubscriber ==
  \A mid \in 1 .. ops :
    /\ \A host \in Hosts : InvocationsBy(mid, host) <= 1
    /\ (\A copy \in FanoutCopies(mid) : ~Pending(copy)) =>
         \A host \in Hosts : InvocationsBy(mid, host) = 1

C10_Witness ==
  \E mid \in 1 .. ops :
    /\ \A copy \in FanoutCopies(mid) : ~Pending(copy)
    /\ Cardinality(FanoutCopies(mid)) = NumServices
    /\ \A host \in Hosts : InvocationsBy(mid, host) = 1

\* The handler invocations made on the service of host, and its timers'
\* firings.
Invocations(host) ==
  Cardinality({p \in UNION {{<<copy, i>> : i \in DOMAIN hist[copy].by} :
                              copy \in DOMAIN hist} :
                 hist[p[1]].by[p[2]] = host})

\* C11: from a state where Service.stop has returned for a service, no step
\* invokes a handler method on that service and no step fires its
\* report_state or periodic_tasks, the greenthreads already in the pool
\* included.
C11_NothingRunsAfterStop ==
  [][\A host \in Hosts :
       svc[host].state = "stopped" =>
         /\ Invocations(host)' = Invocations(host)
         /\ svc'[host].fired = svc[host].fired]_vars

\* The replies published for the envelope of client operation mid.
RepliesFor(mid) ==
  UNION {{hist[copy].replies[i] : i \in DOMAIN hist[copy].replies} :
           copy \in CopiesOf(mid)}

\* C12: with calls in flight together, the reply ids of distinct calls are
\* distinct, what waits in a call's reply queue was published for that
\* call's envelope on its own _msg_id, and what a call returned or raised is
\* the content of such a reply.
C12_CallsSeeOwnReplies ==
  /\ \A m1, m2 \in DOMAIN callers :
       m1 # m2 => callers[m1].msg_id # callers[m2].msg_id
  /\ \A mid \in DOMAIN callers :
       LET caller == callers[mid]
           own == {r \in RepliesFor(mid) : r.exchange = caller.msg_id}
       IN /\ caller.msg_id \in DOMAIN replyQ =>
               \A i \in DOMAIN replyQ[caller.msg_id] :
                 \E r \in own : r.body = replyQ[caller.msg_id][i]
          /\ caller.state = "returned" =>
               \E r \in own : /\ r.body.failure = NoFailure
                               /\ r.body.result = caller.result
          /\ caller.state = "raised" =>
               \E r \in own :
                 /\ r.body.failure # NoFailure
                 /\ caller.result = RemoteError(r.body.failure[1],
                                                r.body.failure[2],
                                                r.body.failure[3])

\* Two calls were in flight together and ended differently.
C12_Witness ==
  \E m1, m2 \in DOMAIN callers :
    /\ callers[m1].state = "returned" /\ callers[m1].result = StrValue("hi")
    /\ callers[m2].state = "raised"
    /\ m1 < m2
    /\ \E c1 \in CopiesOf(m1), c2 \in CopiesOf(m2) :
         hist[c1].by # hist[c2].by

\* The envelope of call mid was fetched by a consumer.
Delivered(mid) == \E copy \in CopiesOf(mid) : hist[copy].fetches > 0

\* C13: every call whose envelope a running consumer fetched eventually
\* returns or raises RemoteError, the greenthreads being scheduled fairly.
C13_DeliveredCallIsAnswered ==
  \A mid \in 1 .. MaxMsgs :
    (mid \in DOMAIN callers /\ Delivered(mid)) ~>
      (mid \in DOMAIN callers /\
         callers[mid].state \in {"returned", "raised"})

\* Every answer in tried is a failure.
AllFailed(tried) == \A j \in DOMAIN tried : ~tried[j]

Has(steps, x) == \E i \in DOMAIN steps : steps[i] = x
At(steps, x) == CHOOSE i \in DOMAIN steps : steps[i] = x
InOrder(steps, x, y) ==
  (Has(steps, x) /\ Has(steps, y)) => At(steps, x) < At(steps, y)

\* The steps of a fetch that found the flag set and went through.
Reconnection ==
  <<"recreate", "create_backend", "declare", "fetch", "log_reconnected",
    "clear_flag">>

\* C15: a fetch run with failed_connection set does Connection.recreate(),
\* then creates the backend, then declares, all before the parent's fetch
\* pulls; it clears the flag only after that pull went through, and when
\* one of the steps raised the flag is still set afterwards.
C15_ReconnectBeforePull ==
  \A c \in DOMAIN cons :
    LET steps == cons[c].recovery
    IN (steps # << >> /\ steps[1] = "recreate") =>
         /\ InOrder(steps, "recreate", "create_backend")
         /\ InOrder(steps, "create_backend", "declare")
         /\ Has(steps, "fetch") =>
              /\ Has(steps, "create_backend") /\ Has(steps, "declare")
              /\ InOrder(steps, "declare", "fetch")
         /\ Has(steps, "clear_flag") =>
              /\ Has(steps, "fetch") /\ ~Has(steps, "raised")
              /\ InOrder(steps, "fetch", "clear_flag")
         /\ Has(steps, "raised") =>
              (cons[c].failed_connection /\ ~Has(steps, "clear_flag"))
         /\ ~cons[c].failed_connection => steps = Reconnection

\* A consumer that reconnected, and one whose reconnection raised at declare.
C15_Witness ==
  /\ \E c \in DOMAIN cons :
       cons[c].recovery = Reconnection /\ ~cons[c].failed_connection
  /\ \E c \in DOMAIN cons :
       /\ cons[c].recovery =
            <<"recreate", "create_backend", "declare", "raised">>
       /\ cons[c].failed_connection

\* C16: no exception leaves Consumer.fetch, so every fetch timer of the
\* running service is still looping; a fetch in which something raised left
\* the flag set; and the only fetch that logs 'Failed to fetch' is one that
\* found the flag clear, so the log is not repeated while the flag is set.
C16_FetchSwallowsAndLogsOnce ==
  \A c \in DOMAIN cons :
    LET steps == cons[c].recovery
    IN /\ TimerOf(c) \in svc[c.host].running
       /\ (Has(steps, "raised") /\ ~Has(steps, "clear_flag")) =>
            cons[c].failed_connection
       /\ Has(steps, "log_failed") =>
            steps = <<"fetch", "raised", "log_failed", "set_flag">>
       /\ (cons[c].failed_connection /\ steps[1] = "recreate") =>
            ~Has(steps, "log_failed")

\* The broker still away, a consumer that logged its failure at one fetch
\* has failed again at the next, reconnecting, without a log.
C16_Witness ==
  /\ ~net.up
  /\ net.outage_fetches = 2
  /\ \E c \in DOMAIN cons :
       /\ cons[c].failed_connection
       /\ cons[c].recovery = <<"recreate", "create_backend", "raised">>
       /\ TimerOf(c) \in svc[c.host].running

\* The handler was invoked for message mid.
Dispatched(mid) == \E copy \in CopiesOf(mid) : hist[copy].by # << >>

\* Message mid was published after the broker had gone away and come back.
PublishedAfterOutage(mid) ==
  \E copy \in CopiesOf(mid) : hist[copy].outages > 0

\* Consumer c's channel is dead and c has not noticed yet.
Unnoticed(c) == ~cons[c].link /\ ~cons[c].failed_connection

\* C17, as claimed: the first fetch of a consumer after the broker dropped
\* reconnects and redeclares, and the messages published after the broker
\* came back are eventually dispatched to the handler.
C17_NextFetchReconnects ==
  /\ [][\A c \in DOMAIN cons :
          (c \in DOMAIN cons' /\ Unnoticed(c) /\ cons'[c] # cons[c]) =>
            /\ Has(cons'[c].recovery, "recreate")
            /\ Has(cons'[c].recovery, "declare")]_vars
  /\ \A mid \in 1 .. MaxMsgs : PublishedAfterOutage(mid) ~> Dispatched(mid)

\* C17, amended: the first fetch of a consumer after the broker dropped
\* raises, is logged and sets the flag, with no reconnection; every fetch
\* made with the flag set begins with recreate, create_backend and declare,
\* and the first of them made with the broker reachable goes through and
\* clears the flag, the consumer object being the same; the messages
\* published after the broker came back are eventually dispatched to the
\* handler.
C17_RecoversAtLaterFetch ==
  /\ [][\A c \in DOMAIN cons :
          (c \in DOMAIN cons' /\ cons'[c] # cons[c]) =>
            /\ Unnoticed(c) =>
                 /\ cons'[c].recovery =
                      <<"fetch", "raised", "log_failed", "set_flag">>
                 /\ cons'[c].failed_connection
            /\ cons[c].failed_connection =>
                 /\ cons'[c].recovery[1] = "recreate"
                 /\ net.up =>
                      /\ cons'[c].recovery = Reconnection
                      /\ ~cons'[c].failed_connection /\ cons'[c].link]_vars
  /\ \A mid \in 1 .. MaxMsgs : PublishedAfterOutage(mid) ~> Dispatched(mid)

\* A message published after the outage was dispatched by the consumer that
\* had been connected before it and has reconnected.
C17_Witness ==
  \E copy \in DOMAIN hist :
    /\ hist[copy].outages > 0
    /\ hist[copy].by = <<1>>
    /\ cons[FirstConsumer].recovery = Reconnection
    /\ ~cons[FirstConsumer].failed_connection

\* The connections returned by the calls before the i-th.
ReturnedBefore(i) == {conn.calls[j].result : j \in 1 .. i - 1}

\* C18: instance(new=True) returns a connection never returned before and
\* leaves what is memoized as it was, nothing included; instance(new=False)
\* constructs and memoizes a connection when none is memoized and otherwise
\* returns the memoized one, leaving it memoized; between calls the
\* memoized connection does not change.
C18_InstanceMemoization ==
  \A i \in DOMAIN conn.calls :
    LET made == conn.calls[i]
    IN /\ made.op = "instance(new=True)" =>
            /\ made.result \notin ReturnedBefore(i)
            /\ made.result # NoInstance
            /\ made.after = made.before
       /\ made.op = "instance(new=False)" =>
            IF made.before = NoInstance
            THEN /\ made.result \notin ReturnedBefore(i)
                 /\ made.result # NoInstance
                 /\ made.after = made.result
            ELSE /\ made.result = made.before
                 /\ made.after = made.before
       /\ i > 1 => made.before = conn.calls[i - 1].after
       /\ i = Len(conn.calls) => conn._instance = made.after

\* instance(new=False) twice gave the same connection, with an
\* instance(new=True) in between that gave another.
C18_Witness ==
  /\ Len(conn.calls) >= 3
  /\ conn.calls[1].op = "instance(new=False)"
  /\ conn.calls[2].op = "instance(new=True)"
  /\ conn.calls[3].op = "instance(new=False)"
  /\ conn.calls[3].result = conn.calls[1].result
  /\ conn.calls[2].result # conn.calls[1].result

\* C19: recreate() completes whether or not a connection is memoized,
\* leaves none memoized, and returns a connection different from every one
\* returned before; an instance(new=False) that follows constructs yet
\* another connection.
C19_RecreateDiscards ==
  \A i \in DOMAIN conn.calls :
    LET made == conn.calls[i]
    IN made.op = "recreate" =>
         /\ made.result \notin ReturnedBefore(i)
         /\ made.result # NoInstance
         /\ made.after = NoInstance
         /\ (i < Len(conn.calls) /\
             conn.calls[i + 1].op = "instance(new=False)") =>
              /\ conn.calls[i + 1].result # made.result
              /\ conn.calls[i + 1].result \notin ReturnedBefore(i + 1)

\* recreate() with a connection memoized and with none, each followed by
\* instance(new=False).
C19_Witness ==
  /\ Len(conn.calls) = 4
  /\ conn.calls[1].op = "instance(new=False)"
  /\ conn.calls[2].op = "recreate" /\ conn.calls[2].before # NoInstance
  /\ conn.calls[3].op = "recreate" /\ conn.calls[3].before = NoInstance
  /\ conn.calls[4].op = "instance(new=False)"
  /\ conn.calls[4].result # conn.calls[3].result

\* The binary is 'nova-' followed by the one piece X.
IsNovaBinary(binary, X) == binary = <<NovaPrefix, X>>

\* C20: a service created for host H from the binary 'nova-X' has the topic
\* X, and once started it has called init_host once and then constructed a
\* topic consumer on X, a topic consumer on X.H and a fanout consumer on X,
\* in that order and each with the service as proxy, and then attached each
\* of the three, once, to a fetch timer.
C20_StartAttachesThreeConsumers ==
  \A H \in Hosts :
    IsNovaBinary(svc[H].binary, ServiceTopic) =>
      /\ svc[H].topic = ServiceTopic
      /\ svc[H].state = "created" => svc[H].trace = << >>
      /\ svc[H].state # "created" =>
           /\ svc[H].trace =
                << "init_host",
                   [cls |-> "TopicAdapterConsumer", proxy |-> H,
                    topic |-> [x |-> "topic", t |-> ServiceTopic, n |-> 0]],
                   [cls |-> "TopicAdapterConsumer", proxy |-> H,
                    topic |-> [x |-> "topic", t |-> ServiceTopic, n |-> H]],
                   [cls |-> "FanoutAdapterConsumer", proxy |-> H,
                    topic |-> [x |-> "topic", t |-> ServiceTopic, n |-> 0]],
                   [attach_to_eventlet |-> "consumer_all"],
                   [attach_to_eventlet |-> "consumer_node"],
                   [attach_to_eventlet |-> "fanout"] >>
           /\ ServiceConsumers(H) \subseteq DOMAIN cons
      /\ svc[H].state = "started" =>
           /\ {"consumer_all", "consumer_node", "fanout"} \subseteq
                svc[H].running
           /\ \A name \in {"consumer_all", "consumer_node", "fanout"} :
                Cardinality({i \in DOMAIN svc[H].timers :
                               svc[H].timers[i] = name}) = 1

\* A service created from 'nova-echo' with no topic given has been started
\* and its shared consumer has dispatched a message.
C20_Witness ==
  \E H \in Hosts :
    /\ IsNovaBinary(svc[H].binary, ServiceTopic)
    /\ svc[H].state = "started"
    /\ Len(svc[H].trace) = 7
    /\ \E copy \in DOMAIN hist : hist[copy].by = <<H>>

\* The timers a service has running, as a set.
TimerSet(service) == {service.timers[i] : i \in DOMAIN service.timers}

FiveTimers == {"consumer_all", "consumer_node", "fanout", "pulse", "periodic"}

\* C21: after start() has returned, the timer list of every constructed
\* service holds the timers start() started and nothing else, and they are
\* five: the three consumers' fetch timers, the report_state timer and the
\* periodic_tasks timer.
C21_FiveTimersAfterStart ==
  \A host \in Hosts :
    svc[host].state = "started" =>
      /\ TimerSet(svc[host]) = FiveTimers
      /\ Len(svc[host].timers) = 5

\* The consumers a service has constructed.
ConsumersOf(host) == {c \in DOMAIN cons : c.host = host}

C23_StopReachesEveryTimer ==
  [][\A host \in Hosts :
       svc'[host].stop_calls = svc[host].stop_calls + 1 =>
         /\ svc'[host].stops = svc[host].stops \o svc[host].timers
         /\ ~svc'[host].raised
         /\ svc'[host].timers = << >>
         /\ svc[host].timers = << >> =>
              /\ svc'[host].running = svc[host].running
              /\ svc'[host].winding = svc[host].winding
              /\ svc'[host].stops = svc[host].stops]_vars

C23_Witness ==
  \E host \in Hosts :
    /\ svc[host].stop_calls = 2
    /\ svc[host].broken = {"consumer_node", "pulse"}
    /\ svc[host].stops = ConsumerTimers \o <<"pulse", "periodic">>
    /\ svc[host].timers = << >>
    /\ ~svc[host].raised

\* The timers a service has started.
StartedTimers(service) ==
  IF service.state = "created" THEN {}
  ELSE {StartTimers(service)[i] : i \in DOMAIN StartTimers(service)}

\* C24: when Service.wait returns, every timer the service has started has
\* ended or its wait() raised; no exception leaves wait, and the timer list
\* is as it was.
C24_WaitOutlastsEveryTimer ==
  [][\A host \in Hosts :
       (svc[host].wait_pc # "returned" /\ svc'[host].wait_pc = "returned") =>
         /\ \A t \in StartedTimers(svc'[host]) :
              t \in svc'[host].broken \/ Ended(svc'[host], t)
         /\ svc'[host].timers = svc[host].timers
         /\ ~svc'[host].raised]_vars

\* C25: an attribute looked up on a Service is the Service's own when the
\* Service or its subclass has it, and otherwise the manager's of that name,
\* AttributeError when the manager has none; and a message is dispatched the
\* same way: a method the Service has of its own is the one called, also
\* when the manager has one of that name.
C25_ServiceFirstThenManager ==
  /\ pk.pc = "getattr" =>
       /\ pk.key \in pk.class.own => pk.attr = Attribute("service", pk.key)
       /\ (pk.key \notin pk.class.own /\ pk.key \in pk.class.manager) =>
            pk.attr = Attribute("manager", pk.key)
       /\ pk.key \notin pk.class.own \cup pk.class.manager =>
            pk.attr = AttributeError
  /\ \A copy \in DOMAIN hist :
       LET h == hist[copy]
           method == method_of(h.data)
       IN h.runs > 0 /\ h.acks > 0 =>
            /\ method \in ServiceOwn =>
                 h.outcome =
                   Raised("TypeError",
                          StrValue("unexpected keyword argument 'context'"))
            /\ (method \notin ServiceOwn /\ method \in ManagerOwn) =>
                 h.outcome \in Handler(method, ClientContext, args_of(h.data))
            /\ method \notin ServiceOwn \cup ManagerOwn =>
                 h.by = << >> /\ h.outcome = NoOutcome

C25_Witness ==
  /\ pk.pc = "getattr" /\ pk.key = "test_method"
  /\ pk.class.own = ExtendedServiceOwn
  /\ pk.attr = Attribute("service", "test_method")
  /\ \E copy \in DOMAIN hist :
       /\ method_of(hist[copy].data) = "periodic_tasks"
       /\ hist[copy].outcome.kind = "raise"
  /\ \E copy \in DOMAIN hist :
       /\ method_of(hist[copy].data) = "echo"
       /\ hist[copy].outcome = Returned(StrValue("hi"))

TakenBy(copy) ==
  {c \in DOMAIN cons : c.queue = copy.queue /\ <<c.host>> = hist[copy].by}

\* C27: when the handler has raised for an envelope without _msg_id, no
\* reply is published for it, its greenthread has ended, and the consumer
\* that took it is as it was: its fetch timer running, its connection not
\* marked failed.
C27_CastFailureStaysInWorker ==
  \A copy \in DOMAIN hist :
    (hist[copy].outcome.kind = "raise" /\ MsgIdOf(hist[copy].data) = NoMsgId) =>
      /\ hist[copy].replies = << >>
      /\ hist[copy].runs = 1
      /\ \A w \in workers : CopyOf(w) # copy
      /\ \A c \in TakenBy(copy) :
           /\ TimerOf(c) \in svc[c.host].running
           /\ ~cons[c].failed_connection
           /\ cons[c].recovery = << >>

\* The handler raised for a cast, and the same consumer has dispatched the
\* message that came after it.
C27_Witness ==
  \E first, later \in DOMAIN hist :
    /\ first.queue = later.queue /\ first.mid < later.mid
    /\ hist[first].outcome.kind = "raise"
    /\ MsgIdOf(hist[first].data) = NoMsgId
    /\ hist[first].by = hist[later].by
    /\ hist[later].outcome.kind = "raise"
    /\ hist[later].fetches = 1

\* C28: a reply with a failure is published for an envelope only when the
\* handler method raised; a handler that returned has no failure reported
\* for it, whatever happened while its reply was published.
C28_FailureOnlyFromHandler ==
  \A copy \in DOMAIN hist :
    \A i \in DOMAIN hist[copy].replies :
      hist[copy].replies[i].body.failure # NoFailure =>
        hist[copy].outcome.kind = "raise"

\* C29: when the handler has returned a value JSON cannot hold, for an
\* envelope with _msg_id, one reply has been published once _receive has
\* ended: its result is the mapping of the value's fields to their reprs,
\* and its failure is null.
C29_FallbackReplyPublished ==
  \A copy \in DOMAIN hist :
    LET h == hist[copy]
        msg_id == MsgIdOf(h.data)
    IN (/\ h.outcome.kind = "return"
        /\ ~Serializable(h.outcome.value)
        /\ msg_id # NoMsgId
        /\ h.runs > 0) =>
         /\ Len(h.replies) = 1
         /\ h.replies[1].exchange = msg_id
         /\ h.replies[1].body.failure = NoFailure
         /\ HasDict(h.outcome.value)
         /\ h.replies[1].body.result = ReprFields(h.outcome.value)

\* C30: a call whose wait has ended has returned the result of a reply, or
\* raised the RemoteError made of a reply's failure, and nothing else.
C30_WaitEndsInResultOrRemoteError ==
  \A mid \in DOMAIN callers :
    LET caller == callers[mid]
    IN (caller.verb = "call" /\ caller.state # "waiting") =>
         \E copy \in CopiesOf(mid) :
           \E i \in DOMAIN hist[copy].replies :
             LET body == hist[copy].replies[i].body
             IN IF body.failure = NoFailure
                THEN caller.state = "returned" /\ caller.result = body.result
                ELSE /\ caller.state = "raised"
                     /\ caller.result =
                          RemoteError(body.failure[1], body.failure[2],
                                      body.failure[3])

\* [A-Z0-9-]{20}
MatchesRequestIdForm(text) ==
  /\ Len(text) = RequestIdLength
  /\ \A x \in DOMAIN text : \E i \in DOMAIN chars : text[x] = chars[i]

\* C31 as stated: a request_id made when the argument is None has the
\* generated form, and any other argument is kept as the request_id.
C31_SuppliedRequestIdKept ==
  pk.pc = "constructed" =>
    IF pk.given = Null
    THEN pk.request_id.t = "str" /\ MatchesRequestIdForm(pk.request_id.v)
    ELSE pk.request_id = pk.given

\* C31 amended: a request_id made when the argument is None or the empty
\* string has the generated form; a non-empty argument is kept unchanged.
C31_GeneratedFormOrKept ==
  pk.pc = "constructed" =>
    IF pk.given = Null \/ pk.given = StrValue(<< >>)
    THEN pk.request_id.t = "str" /\ MatchesRequestIdForm(pk.request_id.v)
    ELSE pk.request_id = pk.given

C31_Witness ==
  /\ pk.pc = "constructed"
  /\ pk.given = Null
  /\ pk.generator.stride = 7
  /\ pk.request_id.v[1] = "-"
  /\ pk.request_id.v[2] # "-"

\* C32: a reply published for a call that has not finished is in the call's
\* reply queue: the queue was declared before the request went out, so no
\* reply is published to a queue that does not exist yet.
C32_ReplyFindsItsQueue ==
  \A mid \in DOMAIN callers :
    LET caller == callers[mid]
    IN (/\ caller.verb = "call"
        /\ caller.state \in {"started", "waiting"}
        /\ \E r \in RepliesFor(mid) : r.exchange = caller.msg_id) =>
         /\ caller.msg_id \in DOMAIN replyQ
         /\ Len(replyQ[caller.msg_id]) =
              Cardinality({<<copy, i>> \in
                             (CopiesOf(mid) \X (1 .. MaxRedeliver + 1)) :
                               /\ i \in DOMAIN hist[copy].replies
                               /\ hist[copy].replies[i].exchange =
                                    caller.msg_id})

C32_Witness ==
  \E mid \in DOMAIN callers :
    /\ callers[mid].verb = "call"
    /\ callers[mid].state = "waiting"
    /\ callers[mid].msg_id \in DOMAIN replyQ
    /\ replyQ[callers[mid].msg_id] # << >>

\* C33: for an envelope with _msg_id set, at most one reply is ever
\* published on that msg_id, whichever way _receive and msg_reply went.
C33_AtMostOneReply ==
  \A copy \in DOMAIN hist :
    LET h == hist[copy]
    IN MsgIdOf(h.data) # NoMsgId =>
         Len(SelectSeq(h.replies,
                       LAMBDA r : r.exchange = MsgIdOf(h.data))) <= 1

\* C34: for each AdapterConsumer, the handler invocations under way never
\* exceed rpc_thread_pool_size, counted in the consumer's own pool, and no
\* receive is ever held waiting for a slot: the fetch loop is never blocked
\* by a saturated pool.
C34_PoolBoundsWithoutBlocking ==
  \A c \in Consumers :
    /\ Cardinality(InPool(c)) <= rpc_thread_pool_size
    /\ Submitting(c) = {}

C36_OneServiceDispatches ==
  \A mid \in DOMAIN callers :
    callers[mid].verb = "cast" =>
      /\ Cardinality(CopiesOf(mid)) <= 1
      /\ \A copy \in CopiesOf(mid) :
           LET h == hist[copy]
           IN /\ Len(h.by) <= 1
              /\ h.outcome # NoOutcome => Len(h.by) = 1
              /\ \A host \in Hosts :
                   copy.queue = HostTopicName(ServiceTopic, host) =>
                     \A i \in DOMAIN h.by : h.by[i] = host

\* One cast to the topic of the last host and one to the shared topic, each
\* handled.
C36_Witness ==
  \E addressed, shared \in DOMAIN hist :
    /\ addressed.queue = HostTopicName(ServiceTopic, NumServices)
    /\ hist[addressed].by = <<NumServices>>
    /\ hist[addressed].outcome # NoOutcome
    /\ shared.queue = TopicName(ServiceTopic)
    /\ Len(hist[shared].by) = 1
    /\ hist[shared].outcome # NoOutcome

\* C37: a started service whose report_interval is unset has opened its
\* three connections and has no consumer, no fetch timer and no report_state
\* timer, and none of its greenthreads has handled or is handling a message;
\* one whose periodic_interval is unset has no periodic_tasks timer.
C37_UnsetIntervalsStartNothing ==
  /\ conn.made = 3 * Cardinality({host \in Hosts : svc[host].state # "created"})
  /\ \A host \in Hosts :
       svc[host].state = "started" =>
         /\ svc[host].report_interval = NoInterval =>
              /\ ConsumersOf(host) = {}
              /\ TimerSet(svc[host]) \cap
                   {"consumer_all", "consumer_node", "fanout", "pulse"} = {}
              /\ \A w \in workers : w.consumer.host # host
              /\ \A copy \in DOMAIN hist :
                   /\ \A i \in DOMAIN hist[copy].by : hist[copy].by[i] # host
                   /\ hist[copy].fetches > 0 =>
                        \E other \in Hosts :
                          /\ other # host
                          /\ svc[other].report_interval # NoInterval
         /\ svc[host].periodic_interval = NoInterval =>
              "periodic" \notin TimerSet(svc[host])

\* A service started with no report_interval and a periodic_interval, next
\* to one that has both and has handled a message.
C37_Witness ==
  \E host, other \in Hosts :
    /\ svc[host].state = "started"
    /\ svc[host].report_interval = NoInterval
    /\ svc[host].timers = <<"periodic">>
    /\ svc[other].state = "started"
    /\ svc[other].report_interval # NoInterval
    /\ \E copy \in DOMAIN hist : hist[copy].by = <<other>>

\* C38: a call that is waiting has closed its request publisher and has its
\* reply consumer open; a call that has returned a value or raised a
\* RemoteError has closed its reply consumer, so no reply queue of a finished
\* call is left.
C38_PublisherAndConsumerClosed ==
  \A mid \in DOMAIN callers :
    LET caller == callers[mid]
    IN caller.verb = "call" =>
         /\ caller.state = "waiting" =>
              /\ caller.publisher = "closed"
              /\ caller.msg_id \in DOMAIN replyQ
         /\ caller.state \in {"returned", "raised"} =>
              /\ caller.publisher = "closed"
              /\ caller.msg_id \notin DOMAIN replyQ

\* One call has returned its value and another has raised its RemoteError.
C38_Witness ==
  \E m1, m2 \in DOMAIN callers :
    /\ callers[m1].verb = "call" /\ callers[m1].state = "returned"
    /\ callers[m2].verb = "call" /\ callers[m2].state = "raised"
    /\ callers[m2].result.exc_type = "Exception"

OneWayMids ==
  {mid \in DOMAIN callers : callers[mid].verb \in {"cast", "fanout_cast"}}

\* C39: the envelope of a cast or fanout_cast is the mapping passed in with
\* the context packed into it, _msg_id there exactly when the mapping had
\* it; and the consumer that receives it sends a reply only when the
\* envelope carries _msg_id.
C39_CastKeepsMsgIdAndRepliesOnlyWithIt ==
  \A mid \in OneWayMids :
    \A copy \in CopiesOf(mid) :
      LET h == hist[copy]
      IN /\ \E msg \in ReuseMsgs :
              /\ h.data = _pack_context(msg, ClientContext)
              /\ MsgIdOf(h.data) = MsgIdOf(msg)
         /\ h.replies # << >> => MsgIdOf(h.data) # NoMsgId

====
